---- MODULE Spec2Model ----
(***************************************************************************)
(* A model of the keystore package (github.com/mdigger/keystore): a        *)
(* key-value store kept in one data file, with an in-memory key index and  *)
(* a list of free slots rebuilt by scanning the file on open.              *)
(*                                                                         *)
(* The file is modelled byte by byte; every number stored in it goes       *)
(* through its big-endian encoding and is parsed back by the scan.         *)
(***************************************************************************)
EXTENDS Integers, Sequences, FiniteSets, TLC

VARIABLES
    file,       \* the bytes of the data file (db.f), a sequence of 0..255
    indexes,    \* db.indexes: key -> index
    deleted,    \* db.deleted: free slots, a sequence of index
    counter,    \* db.counter
    sync,       \* db.sync
    opened,     \* whether db.f is an open handle
    now,        \* time.Now().Unix()
    faults,     \* number of I/O errors injected so far
    nops,       \* number of operations issued so far
    hist,       \* the last operations and what they returned (newest last)
    returned,   \* the values the successful NextSequence calls returned, in order
    mu,         \* db.mu: [w |-> the thread holding Lock or 0, r |-> the threads holding RLock]
    pc,         \* where each thread is in its call
    cur,        \* the call each thread is in, with its local variables
    written,    \* the values put has written for each key so far
    cops,       \* number of calls begun by the threads
    dbs,        \* the registry dbs: path -> store (0 when absent)
    stores,     \* every store open has built: [path, open, ops, ret, reclosed]
    closing,    \* stores with a db.Close call between its two steps
    removing,   \* paths with a Remove call between Close and os.Remove
    exists,     \* the paths that have a file
    kPrefix,    \* the arguments of a Keys call
    kLast,
    kOffset,
    kLimit,
    kAsc,
    kDone,      \* whether Keys has returned
    kResult,    \* what Keys returned
    call,       \* the one call made on the store: its name and arguments
    ret,        \* what the call returned
    trace,      \* the file operations the call issued, in order
    before,     \* the store as it was before the call
    globalCounter,  \* the counter of NewUID
    since,      \* time.Since(minDate), in nanoseconds
    uids,       \* the values NewUID returned, in order
    wide        \* a store whose file grows past 2^32 bytes: [end, recs, indexes]

engineVars == <<file, indexes, deleted, counter, sync, opened, now, faults, nops, hist, returned>>

concVars == <<mu, pc, cur, written, cops>>

regVars == <<dbs, stores, closing, removing, exists>>

keysVars == <<kPrefix, kLast, kOffset, kLimit, kAsc, kDone, kResult>>

callVars == <<call, ret, trace, before>>

uidVars == <<globalCounter, since, uids>>

wideVars == <<wide>>

vars == <<engineVars, concVars, regVars, keysVars, callVars, uidVars, wideVars>>

-----------------------------------------------------------------------------
(* Bounds of the model. *)

\* the number of operations of one run
MaxOps == 4
\* the number of operations hist remembers
HistLen == 3
\* the number of I/O errors injected in one run
MaxFaults == 1
\* the last value of the clock
MaxNow == 2

\* the number of operations of one run of NextSequence calls
MaxSeqOps == 6
\* the number of threads
NThreads == 2
\* the number of calls the threads begin in one run
MaxConcOps == 3
\* the number of stores open builds in one run
MaxStores == 3
\* the length of a key given to Keys
MaxKeyLen == 2
\* the number of keys of the store Keys is called on
MaxKeys == 3
\* the largest offset and limit given to Keys
MaxOffset == 2

Thread == 1..NThreads

Path == {"p", "q"}

Key == {<<97>>, <<98, 99>>}

Value == {<<>>, <<1>>, <<2, 3>>}

-----------------------------------------------------------------------------
(* Encoding. *)

\* the file signature 0xD3EFAA03, as the four bytes binary.Write emits
signature == <<211, 239, 170, 3>>

\* binary.Size(new(storedIndex)): 4 + 1 + 1 + 4 + 4
storedIndexSize == 14

\* binary.Size(new(index)): 4 + 1 + 4 + 4
indexSize == 13

\* the size of the file header: signature and counter
headerSize == 12

\* binary.BigEndian: the low w bytes of n, most significant first
RECURSIVE BE(_, _)
BE(n, w) == IF w = 0 THEN <<>> ELSE BE(n \div 256, w - 1) \o <<n % 256>>

RECURSIVE FromBE(_)
FromBE(s) == IF Len(s) = 0 THEN 0
             ELSE s[Len(s)] + 256 * FromBE(SubSeq(s, 1, Len(s) - 1))

\* the conversions uint32(n) and uint8(n): n cut to its low bytes
Uint32(n) == FromBE(BE(n, 4))

Uint8(n) == FromBE(BE(n, 1))

\* binary.Write of a storedIndex
EncodeStoredIndex(h) ==
    BE(h.Time, 4) \o <<IF h.Deleted THEN 1 ELSE 0>> \o <<h.KeySize>>
        \o BE(h.DataSize, 4) \o BE(h.EmptySize, 4)

\* binary.Read of a storedIndex from 14 bytes
DecodeStoredIndex(b) ==
    [Time      |-> FromBE(SubSeq(b, 1, 4)),
     Deleted   |-> b[5] # 0,
     KeySize   |-> b[6],
     DataSize  |-> FromBE(SubSeq(b, 7, 10)),
     EmptySize |-> FromBE(SubSeq(b, 11, 14))]

\* storedIndex.Size
storedIndex_Size(h) ==
    storedIndexSize + h.KeySize + Uint32(h.DataSize + h.EmptySize)

\* index.Size
index_Size(i) == Uint32(i.KeySize + i.DataSize + i.EmptySize)

\* index.DataOffset without the byte of the deleted mark, which the stored
\* index holds and the index in memory does not
DataOffset_NoMark(i) == i.Offset + indexSize + i.KeySize

\* index.DataOffset
DataOffset(i) == i.Offset + indexSize + i.KeySize + 1

-----------------------------------------------------------------------------
(* The file. *)

\* os.File.WriteAt: the file with buf written at byte offset off
WriteAt(f, buf, off) ==
    LET n == IF off + Len(buf) > Len(f) THEN off + Len(buf) ELSE Len(f)
    IN [i \in 1..n |->
            IF i > off /\ i <= off + Len(buf) THEN buf[i - off]
            ELSE IF i <= Len(f) THEN f[i] ELSE 0]

\* os.File.ReadAt of n bytes at byte offset off
ReadAt(f, n, off) ==
    IF n = 0 THEN [data |-> <<>>, err |-> "nil"]
    ELSE IF off + n <= Len(f)
         THEN [data |-> SubSeq(f, off + 1, off + n), err |-> "nil"]
         ELSE [data |-> <<>>, err |-> "EOF"]

-----------------------------------------------------------------------------
(* sort.Search and the order of the free slots. *)

\* the loop of sort.Search over a predicate given as a function on 0..n-1
RECURSIVE SearchLoop(_, _, _)
SearchLoop(i, j, f) ==
    IF i < j
    THEN LET h == (i + j) \div 2
         IN IF ~f[h] THEN SearchLoop(h + 1, j, f) ELSE SearchLoop(i, h, f)
    ELSE i

Search(n, f) == SearchLoop(0, n, f)

\* the less function of the sort in open
DeletedLess(a, b) ==
    LET s1 == index_Size(a)
        s2 == index_Size(b)
    IN s1 < s2 \/ (s1 = s2 /\ a.Offset < b.Offset)

InsertAt(s, pos, e) == SubSeq(s, 1, pos) \o <<e>> \o SubSeq(s, pos + 1, Len(s))

RemoveAt(s, pos) == SubSeq(s, 1, pos) \o SubSeq(s, pos + 2, Len(s))

RECURSIVE InsertSorted(_, _)
InsertSorted(s, e) ==
    IF Len(s) = 0 THEN <<e>>
    ELSE IF DeletedLess(e, s[1]) THEN <<e>> \o s
         ELSE <<s[1]>> \o InsertSorted(Tail(s), e)

\* sort.Slice(deleted, ...) in open
RECURSIVE SortDeleted(_)
SortDeleted(s) ==
    IF Len(s) = 0 THEN <<>>
    ELSE InsertSorted(SortDeleted(SubSeq(s, 1, Len(s) - 1)), s[Len(s)])

-----------------------------------------------------------------------------
(* open: the header and the scan that rebuilds the index. *)

\* the 12 bytes of the file header
EncodeHeader(sig, cnt) == sig \o BE(cnt, 8)

\* file.Read(key) at byte offset off into a buffer of n zero bytes: what is
\* left of the file fills the front of the buffer
ReadKey(f, n, off) ==
    IF n = 0 THEN [key |-> <<>>, err |-> "nil"]
    ELSE IF off >= Len(f) THEN [key |-> <<>>, err |-> "EOF"]
    ELSE [key |-> [i \in 1..n |-> IF off + i <= Len(f) THEN f[off + i] ELSE 0],
          err |-> "nil"]

\* the index entry open builds for the record at byte offset `offset`
ScanIndex(offset, storedIndex) ==
    [Offset    |-> Uint32(offset),
     KeySize   |-> storedIndex.KeySize,
     DataSize  |-> storedIndex.DataSize,
     EmptySize |-> storedIndex.EmptySize]

\* a comparison of times that also takes a record of the same time as newer
Newer_OrEqual(times, key, storedIndex) == times[key] <= storedIndex.Time

\* the record read is newer than the record of key met before
Newer(times, key, storedIndex) == times[key] < storedIndex.Time

\* the for loop of open, from the record at byte offset `offset`; a value
\* used more than once is an operator parameter, evaluated once
RECURSIVE scan(_, _, _, _, _)
RECURSIVE scanHeader(_, _, _, _, _, _)
RECURSIVE scanRecord(_, _, _, _, _, _, _, _)
scan(f, offset, idxs, times, dels) ==
    IF offset >= Len(f)
    THEN [err |-> "EOF", indexes |-> idxs, deleted |-> dels]
    ELSE IF offset + storedIndexSize > Len(f)
    THEN [err |-> "ErrUnexpectedEOF", indexes |-> idxs, deleted |-> dels]
    ELSE scanHeader(f, offset, idxs, times, dels,
            DecodeStoredIndex(SubSeq(f, offset + 1, offset + storedIndexSize)))

scanHeader(f, offset, idxs, times, dels, storedIndex) ==
    scanRecord(f, idxs, times, dels, storedIndex,
               ReadKey(f, storedIndex.KeySize, offset + storedIndexSize),
               ScanIndex(offset, storedIndex),
               offset + storedIndex_Size(storedIndex))

scanRecord(f, idxs, times, dels, storedIndex, rk, index, next) ==
    IF rk.err # "nil"
    THEN [err |-> rk.err, indexes |-> idxs, deleted |-> dels]
    ELSE IF ~storedIndex.Deleted
    THEN IF rk.key \in DOMAIN idxs
         THEN IF Newer(times, rk.key, storedIndex)
              THEN scan(f, next,
                        [idxs EXCEPT ![rk.key] = index],
                        [times EXCEPT ![rk.key] = storedIndex.Time],
                        Append(dels, idxs[rk.key]))
              ELSE scan(f, next, idxs, times, Append(dels, index))
         ELSE scan(f, next,
                   [k \in DOMAIN idxs \cup {rk.key} |->
                         IF k = rk.key THEN index ELSE idxs[k]],
                   [k \in DOMAIN times \cup {rk.key} |->
                         IF k = rk.key THEN storedIndex.Time ELSE times[k]],
                   dels)
    ELSE scan(f, next, idxs, times, Append(dels, index))

\* an open that starts the counter at 0 whatever the file holds
HeaderCounter_Zero(f) == 0

\* header.Counter as binary.Read took it from the file
HeaderCounter(f) == FromBE(SubSeq(f, 5, 12))

\* the store open returns after a scan that ended with r
openScanned(f, r) ==
    IF r.err # "EOF"
    THEN [err |-> r.err, file |-> f,
          indexes |-> <<>>, deleted |-> <<>>, counter |-> 0]
    ELSE [err |-> "nil", file |-> f,
          indexes |-> r.indexes,
          deleted |-> SortDeleted(r.deleted),
          counter |-> HeaderCounter(f)]

\* an open that takes any signature
BadSignature_Never(f) == FALSE

\* header.Signature != signature
BadSignature(f) == SubSeq(f, 1, 4) # signature

\* open(filename) on a file holding the bytes f
open(f) ==
    IF Len(f) = 0
    THEN [err |-> "nil", file |-> EncodeHeader(signature, 0),
          indexes |-> <<>>, deleted |-> <<>>, counter |-> 0]
    ELSE IF Len(f) < headerSize
    THEN [err |-> "ErrUnexpectedEOF", file |-> f,
          indexes |-> <<>>, deleted |-> <<>>, counter |-> 0]
    ELSE IF BadSignature(f)
    THEN [err |-> "bad file format", file |-> f,
          indexes |-> <<>>, deleted |-> <<>>, counter |-> 0]
    ELSE openScanned(f, scan(f, headerSize, <<>>, <<>>, <<>>))

-----------------------------------------------------------------------------
(* get, delete, put on a store d = [file, indexes, deleted]. *)

\* the read of db.get: the data of the record index describes
getRead(f, index) == ReadAt(f, index.DataSize, DataOffset(index))

\* an absent key read as a key with an empty value
get_Empty(d, key) ==
    IF key \notin DOMAIN d.indexes
    THEN [data |-> <<>>, err |-> "nil"]
    ELSE getRead(d.file, d.indexes[key])

\* db.get
get(d, key) ==
    IF key \notin DOMAIN d.indexes
    THEN [data |-> <<>>, err |-> "ErrNotFound"]
    ELSE getRead(d.file, d.indexes[key])

\* a delete that puts every index at the front of db.deleted
DeleteSearch_Front(dels, index) == 0

\* the position at which delete inserts index into db.deleted
DeleteSearch(dels, index) ==
    Search(Len(dels),
           [i \in 0..(Len(dels) - 1) |->
                \/ index_Size(dels[i + 1]) > index_Size(index)
                \/ /\ index_Size(dels[i + 1]) = index_Size(index)
                   /\ dels[i + 1].Offset > index.Offset])

\* db.delete that leaves the key in the index
deleteInsert_KeepIndex(d, key, index, f2, found) ==
    [file    |-> f2,
     indexes |-> d.indexes,
     deleted |-> IF found < Len(d.deleted) /\ d.deleted[found + 1].Offset = index.Offset
                 THEN d.deleted
                 ELSE InsertAt(d.deleted, found, index),
     err     |-> "nil", ops |-> <<"WriteAt">>]

\* the end of db.delete: the key leaves the index and its record joins the
\* free slots at position found
deleteInsert(d, key, index, f2, found) ==
    [file    |-> f2,
     indexes |-> [k \in DOMAIN d.indexes \ {key} |-> d.indexes[k]],
     deleted |-> IF found < Len(d.deleted) /\ d.deleted[found + 1].Offset = index.Offset
                 THEN d.deleted
                 ELSE InsertAt(d.deleted, found, index),
     err     |-> "nil", ops |-> <<"WriteAt">>]

\* a delete that leaves the record in the file as it is
delete_NoMark(d, key, t, failWrite) ==
    IF key \notin DOMAIN d.indexes
    THEN [file |-> d.file, indexes |-> d.indexes, deleted |-> d.deleted,
          err |-> "ErrNotFound", ops |-> <<>>]
    ELSE IF failWrite
    THEN [file |-> d.file, indexes |-> d.indexes, deleted |-> d.deleted,
          err |-> "EIO", ops |-> <<"WriteAt!">>]
    ELSE deleteInsert(d, key, d.indexes[key], d.file,
                      DeleteSearch(d.deleted, d.indexes[key]))

\* a delete that also writes a zero over the key size of the record
delete_SixBytes(d, key, t, failWrite) ==
    IF key \notin DOMAIN d.indexes
    THEN [file |-> d.file, indexes |-> d.indexes, deleted |-> d.deleted,
          err |-> "ErrNotFound", ops |-> <<>>]
    ELSE IF failWrite
    THEN [file |-> d.file, indexes |-> d.indexes, deleted |-> d.deleted,
          err |-> "EIO", ops |-> <<"WriteAt!">>]
    ELSE deleteInsert(d, key, d.indexes[key],
                      WriteAt(d.file, BE(Uint32(t), 4) \o <<1, 0>>, d.indexes[key].Offset),
                      DeleteSearch(d.deleted, d.indexes[key]))

\* db.delete; the bytes written are the time and the deleted mark
delete(d, key, t, failWrite) ==
    IF key \notin DOMAIN d.indexes
    THEN [file |-> d.file, indexes |-> d.indexes, deleted |-> d.deleted,
          err |-> "ErrNotFound", ops |-> <<>>]
    ELSE IF failWrite
    THEN [file |-> d.file, indexes |-> d.indexes, deleted |-> d.deleted,
          err |-> "EIO", ops |-> <<"WriteAt!">>]
    ELSE deleteInsert(d, key, d.indexes[key],
                      WriteAt(d.file, BE(Uint32(t), 4) \o <<1>>, d.indexes[key].Offset),
                      DeleteSearch(d.deleted, d.indexes[key]))

\* a search of put that takes the last slot of the list, the largest,
\* when it has room
PutSearch_Last(dels, dataSize) ==
    IF dels # <<>> /\ index_Size(dels[Len(dels)]) >= dataSize
    THEN Len(dels) - 1
    ELSE Len(dels)

\* the search of put with > in place of >=: a slot of exactly the size
\* needed is passed over
PutSearch_Strict(dels, dataSize) ==
    Search(Len(dels),
           [i \in 0..(Len(dels) - 1) |-> index_Size(dels[i + 1]) > dataSize])

\* the position of the free slot put takes: the first of size >= dataSize
PutSearch(dels, dataSize) ==
    Search(Len(dels),
           [i \in 0..(Len(dels) - 1) |-> index_Size(dels[i + 1]) >= dataSize])

\* a put that writes no free space behind the data of a reused slot
PutEmpty_Zero(slot, key, value) == 0

\* the size of the free space left behind the data of a reused slot
PutEmpty(slot, key, value) ==
    Uint32(index_Size(slot) - Uint32(Len(key) + Len(value)))

\* the index entry put builds
PutIndex(offset, key, value, empty) ==
    [Offset    |-> Uint32(offset),
     KeySize   |-> Uint8(Len(key)),
     DataSize  |-> Uint32(Len(value)),
     EmptySize |-> empty]

\* the buffer of put with the data written before the key
PutBuf_ValueFirst(index, key, value, t) ==
    EncodeStoredIndex([Time      |-> Uint32(t),
                       Deleted   |-> FALSE,
                       KeySize   |-> index.KeySize,
                       DataSize  |-> index.DataSize,
                       EmptySize |-> index.EmptySize])
        \o value \o key

\* the bytes put writes: the stored index, the key and the data
PutBuf(index, key, value, t) ==
    EncodeStoredIndex([Time      |-> Uint32(t),
                       Deleted   |-> FALSE,
                       KeySize   |-> index.KeySize,
                       DataSize  |-> index.DataSize,
                       EmptySize |-> index.EmptySize])
        \o key \o value

\* the end of db.put: the record is written at offset and enters the index
putWrite(d1, key, value, t, fault, offset, index, dels2, ops) ==
    IF fault = "write"
    THEN [file |-> d1.file, indexes |-> d1.indexes, deleted |-> dels2,
          err |-> "EIO", offset |-> offset, ops |-> Append(ops, "WriteAt!")]
    ELSE [file    |-> WriteAt(d1.file, PutBuf(index, key, value, t), offset),
          indexes |-> [k \in DOMAIN d1.indexes \cup {key} |->
                            IF k = key THEN index ELSE d1.indexes[k]],
          deleted |-> dels2, err |-> "nil", offset |-> offset,
          ops |-> Append(ops, "WriteAt")]

\* a put that leaves the slot it takes in db.deleted
putPlace_KeepSlot(d1, key, value, t, fault, found) ==
    IF found < Len(d1.deleted)
    THEN putWrite(d1, key, value, t, fault, d1.deleted[found + 1].Offset,
                  PutIndex(d1.deleted[found + 1].Offset, key, value,
                           PutEmpty(d1.deleted[found + 1], key, value)),
                  d1.deleted, d1.ops)
    ELSE IF fault = "seek"
    THEN [file |-> d1.file, indexes |-> d1.indexes, deleted |-> d1.deleted,
          err |-> "EIO", offset |-> 0, ops |-> Append(d1.ops, "Seek!")]
    ELSE putWrite(d1, key, value, t, fault, Len(d1.file),
                  PutIndex(Len(d1.file), key, value, 0), d1.deleted,
                  Append(d1.ops, "Seek"))

\* a put that writes at the end of the file whatever the free slots are
putPlace_Append(d1, key, value, t, fault, found) ==
    IF fault = "seek"
    THEN [file |-> d1.file, indexes |-> d1.indexes, deleted |-> d1.deleted,
          err |-> "EIO", offset |-> 0, ops |-> Append(d1.ops, "Seek!")]
    ELSE putWrite(d1, key, value, t, fault, Len(d1.file),
                  PutIndex(Len(d1.file), key, value, 0), d1.deleted,
                  Append(d1.ops, "Seek"))

\* the middle of db.put: the free slot at position found, or the end of
\* the file
putPlace(d1, key, value, t, fault, found) ==
    IF found < Len(d1.deleted)
    THEN putWrite(d1, key, value, t, fault, d1.deleted[found + 1].Offset,
                  PutIndex(d1.deleted[found + 1].Offset, key, value,
                           PutEmpty(d1.deleted[found + 1], key, value)),
                  RemoveAt(d1.deleted, found), d1.ops)
    ELSE IF fault = "seek"
    THEN [file |-> d1.file, indexes |-> d1.indexes, deleted |-> d1.deleted,
          err |-> "EIO", offset |-> 0, ops |-> Append(d1.ops, "Seek!")]
    ELSE putWrite(d1, key, value, t, fault, Len(d1.file),
                  PutIndex(Len(d1.file), key, value, 0), d1.deleted,
                  Append(d1.ops, "Seek"))

\* db.put after its call of db.delete returned d1
putDeleted(d1, key, value, t, fault) ==
    IF d1.err # "nil" /\ d1.err # "ErrNotFound"
    THEN [file |-> d1.file, indexes |-> d1.indexes, deleted |-> d1.deleted,
          err |-> d1.err, offset |-> 0, ops |-> d1.ops]
    ELSE putPlace(d1, key, value, t, fault,
                  PutSearch(d1.deleted, Uint32(Len(key) + Len(value))))

\* db.put that does not delete the old record of the key first
put_NoDelete(d, key, value, t, fault) ==
    putDeleted([file |-> d.file, indexes |-> d.indexes, deleted |-> d.deleted,
                err |-> "ErrNotFound", ops |-> <<>>], key, value, t, fault)

\* db.put; fault names the file operation that fails, if any
put(d, key, value, t, fault) ==
    putDeleted(delete(d, key, t, fault = "delete"), key, value, t, fault)

-----------------------------------------------------------------------------
(* The store engine: one handle on one file, its operations one at a time. *)

Store == [file |-> file, indexes |-> indexes, deleted |-> deleted]

\* a count of the records of the file, the free slots too
Count_WithFree == Cardinality(DOMAIN indexes) + Len(deleted)

\* db.Count
Count == Cardinality(DOMAIN indexes)

\* db.Has
Has(key) == key \in DOMAIN indexes

\* db.Get
Get(key) == get(Store, key)

\* what hist keeps of one operation: the call, what it returned, and the
\* file length, Count() and the number of free slots right after it
Entry(op, key, val, err, off, seq, f, idxs, dels) ==
    [op |-> op, key |-> key, val |-> val, err |-> err, off |-> off,
     seq |-> seq, flen |-> Len(f), cnt |-> Cardinality(DOMAIN idxs),
     nfree |-> Len(dels)]

Push(h, e) == IF Len(h) >= HistLen THEN Append(Tail(h), e) ELSE Append(h, e)

\* no thread runs a call
IdleOp == [kind |-> "none", batch |-> FALSE, keys |-> <<>>, vals |-> <<>>,
           i |-> 0, idx |-> <<>>, derr |-> "nil", res |-> <<>>]

ConcIdle ==
    /\ mu = [w |-> 0, r |-> {}]
    /\ pc = [t \in Thread |-> "idle"]
    /\ cur = [t \in Thread |-> IdleOp]
    /\ written = [k \in Key |-> {}]
    /\ cops = 0

\* the registry is empty and no file exists
RegIdle ==
    /\ dbs = [p \in Path |-> 0]
    /\ stores = <<>>
    /\ closing = {}
    /\ removing = {}
    /\ exists = {}

\* no call made yet
CallIdle ==
    /\ call = [op |-> "none"]
    /\ ret = [err |-> "nil"]
    /\ trace = <<>>
    /\ before = <<>>

\* no store with a file of that size
WideIdle == wide = <<>>

\* no call of NewUID
UIDIdle ==
    /\ globalCounter = 0
    /\ since = 0
    /\ uids = <<>>

\* no call of Keys
KeysIdle ==
    /\ kPrefix = <<>>
    /\ kLast = <<>>
    /\ kOffset = 0
    /\ kLimit = 0
    /\ kAsc = TRUE
    /\ kDone = FALSE
    /\ kResult = <<>>

\* the state after Open on a new file
Init ==
    LET r == open(<<>>)
    IN /\ file = r.file
       /\ indexes = r.indexes
       /\ deleted = r.deleted
       /\ counter = r.counter
       /\ sync = TRUE
       /\ opened = TRUE
       /\ now = 1
       /\ faults = 0
       /\ nops = 0
       /\ hist = <<>>
       /\ returned = <<>>
       /\ ConcIdle
       /\ RegIdle
       /\ KeysIdle
       /\ UIDIdle
       /\ WideIdle
       /\ CallIdle

\* what db.Put and db.Delete return after put or delete returned r: the
\* error of r, or that of db.Sync when db.sync is set
SyncErr(r, fault) ==
    IF r.err = "nil" /\ sync
    THEN (IF fault = "sync" THEN "EIO" ELSE "nil")
    ELSE r.err

PutDone(key, value, fault, r) ==
    /\ fault # "none" => SyncErr(r, fault) = "EIO"
    /\ file' = r.file
    /\ indexes' = r.indexes
    /\ deleted' = r.deleted
    /\ hist' = Push(hist, Entry("Put", key, value, SyncErr(r, fault), r.offset, 0,
                                r.file, r.indexes, r.deleted))

\* db.Put(key, value)
PutStep(key, value, fault) ==
    /\ opened
    /\ fault # "none" => faults < MaxFaults
    /\ PutDone(key, value, fault,
               put(Store, key, value, now, IF fault = "sync" THEN "none" ELSE fault))
    /\ faults' = IF fault = "none" THEN faults ELSE faults + 1
    /\ nops' = nops + 1
    /\ UNCHANGED <<counter, sync, opened, now, returned>>
    /\ UNCHANGED <<concVars, regVars, keysVars, uidVars, wideVars, callVars>>

\* db.Put(key, value), within the number of operations of a run
Put(key, value, fault) == nops < MaxOps /\ PutStep(key, value, fault)

DeleteDone(key, fault, r) ==
    /\ fault # "none" => SyncErr(r, fault) = "EIO"
    /\ file' = r.file
    /\ indexes' = r.indexes
    /\ deleted' = r.deleted
    /\ hist' = Push(hist, Entry("Delete", key, <<>>, SyncErr(r, fault),
                                IF key \in DOMAIN indexes THEN indexes[key].Offset ELSE 0,
                                0, r.file, r.indexes, r.deleted))

\* db.Delete(key)
DeleteStep(key, fault) ==
    /\ opened
    /\ fault # "none" => faults < MaxFaults
    /\ DeleteDone(key, fault, delete(Store, key, now, fault = "write"))
    /\ faults' = IF fault = "none" THEN faults ELSE faults + 1
    /\ nops' = nops + 1
    /\ UNCHANGED <<counter, sync, opened, now, returned>>
    /\ UNCHANGED <<concVars, regVars, keysVars, uidVars, wideVars, callVars>>

\* db.Delete(key), within the number of operations of a run
Delete(key, fault) == nops < MaxOps /\ DeleteStep(key, fault)

NextSequenceDone(fault, c, f2) ==
    /\ counter' = c
    /\ file' = f2
    /\ returned' = IF fault = "none" THEN Append(returned, c) ELSE returned
    /\ hist' = Push(hist, Entry("NextSequence", <<>>, <<>>,
                                IF fault = "none" THEN "nil" ELSE "EIO",
                                0, c, f2, indexes, deleted))

\* db.NextSequence
NextSequenceStep(fault) ==
    /\ opened
    /\ fault # "none" => faults < MaxFaults
    /\ fault = "sync" => sync
    /\ NextSequenceDone(fault, counter + 1,
            IF fault = "write" THEN file ELSE WriteAt(file, BE(counter + 1, 8), 4))
    /\ faults' = IF fault = "none" THEN faults ELSE faults + 1
    /\ nops' = nops + 1
    /\ UNCHANGED <<indexes, deleted, sync, opened, now>>
    /\ UNCHANGED <<concVars, regVars, keysVars, uidVars, wideVars, callVars>>

\* db.NextSequence, within the number of operations of a run
NextSequence(fault) == nops < MaxOps /\ NextSequenceStep(fault)

\* db.Close: the handle is synced and closed
CloseStep ==
    /\ opened
    /\ opened' = FALSE
    /\ nops' = nops + 1
    /\ hist' = Push(hist, Entry("Close", <<>>, <<>>, "nil", 0, 0, file, indexes, deleted))
    /\ UNCHANGED <<file, indexes, deleted, counter, sync, now, faults, returned>>
    /\ UNCHANGED <<concVars, regVars, keysVars, uidVars, wideVars, callVars>>

\* db.Close, within the number of operations of a run
CloseDB == nops < MaxOps /\ CloseStep

OpenDone(r) ==
    IF r.err = "nil"
    THEN /\ file' = r.file
         /\ indexes' = r.indexes
         /\ deleted' = r.deleted
         /\ counter' = r.counter
         /\ sync' = TRUE
         /\ opened' = TRUE
         /\ hist' = Push(hist, Entry("Open", <<>>, <<>>, "nil", 0, 0,
                                     r.file, r.indexes, r.deleted))
    ELSE /\ hist' = Push(hist, Entry("Open", <<>>, <<>>, r.err, 0, 0,
                                     file, indexes, deleted))
         /\ UNCHANGED <<file, indexes, deleted, counter, sync, opened>>

\* Open of the file after a close: a new store built by open
OpenDB ==
    /\ ~opened
    /\ OpenDone(open(file))
    /\ UNCHANGED <<now, faults, nops, returned>>
    /\ UNCHANGED <<concVars, regVars, keysVars, uidVars, wideVars, callVars>>

\* the clock moves on
Tick ==
    /\ now < MaxNow
    /\ nops < MaxOps
    /\ now' = now + 1
    /\ UNCHANGED <<file, indexes, deleted, counter, sync, opened, faults, nops, hist, returned>>
    /\ UNCHANGED <<concVars, regVars, keysVars, uidVars, wideVars, callVars>>

Next ==
    \/ \E key \in Key, value \in Value, fault \in {"none", "delete", "seek", "write", "sync"} :
            Put(key, value, fault)
    \/ \E key \in Key, fault \in {"none", "write", "sync"} : Delete(key, fault)
    \/ \E fault \in {"none", "write", "sync"} : NextSequence(fault)
    \/ CloseDB
    \/ OpenDB
    \/ Tick

Spec == Init /\ [][Next]_vars

-----------------------------------------------------------------------------
(* Longer runs of NextSequence, Close and Open, with a Put and a Delete of *)
(* one record in between.                                                 *)

NextSeq ==
    \/ \E fault \in {"none", "write", "sync"} :
            nops < MaxSeqOps /\ NextSequenceStep(fault)
    \/ nops < MaxSeqOps /\ CloseStep
    \/ OpenDB
    \/ nops < MaxSeqOps /\ PutStep(<<97>>, <<1>>, "none")
    \/ nops < MaxSeqOps /\ DeleteStep(<<97>>, "none")

SpecSeq == Init /\ [][NextSeq]_vars

-----------------------------------------------------------------------------
(* Properties of the store engine. *)

\* the i-th last operation of hist (0 is the last)
H(i) == hist[Len(hist) - i]

\* the key-to-value mapping of the store, as Keys and Get show it
KVMap == [k \in DOMAIN indexes |-> Get(k)]

\* C1. Round trip: right after a Put(k, v) that returned nil, Get(k) returns
\* exactly v with a nil error, the empty value included.
RoundTrip ==
    (Len(hist) >= 1 /\ H(0).op = "Put" /\ H(0).err = "nil")
        => Get(H(0).key) = [data |-> H(0).val, err |-> "nil"]

\* a Put of the empty value into a store that already holds a free slot and
\* another key, read back as the empty sequence
RoundTripWitness ==
    /\ Len(hist) >= 3
    /\ H(0).op = "Put" /\ H(0).err = "nil" /\ H(0).val = <<>>
    /\ H(0).nfree >= 1 /\ H(0).cnt >= 2
    /\ Get(H(0).key) = [data |-> <<>>, err |-> "nil"]

\* C2. Recovery equivalence: when every call so far succeeded, opening the
\* file after a close succeeds and yields the key-to-value mapping held at
\* the close.
RecoveryEquivalence ==
    [][(~opened /\ faults = 0 /\ hist' # hist) => (opened' /\ KVMap' = KVMap)]_vars

\* a store reopened with keys in the index and free slots in the file
RecoveryWitness ==
    /\ Len(hist) >= 3
    /\ H(0).op = "Open" /\ H(0).err = "nil" /\ faults = 0
    /\ H(1).op = "Close"
    /\ Count >= 1 /\ Len(deleted) >= 1
    /\ \E k \in DOMAIN indexes : Get(k).err = "nil" /\ Get(k).data # <<>>

\* C3. Overwrite: after Put(k, v1) and Put(k, v2) both returned nil, Get(k)
\* returns v2 and Count() is what it was after the first Put.
Overwrite ==
    (/\ Len(hist) >= 2
     /\ H(1).op = "Put" /\ H(1).err = "nil"
     /\ H(0).op = "Put" /\ H(0).err = "nil"
     /\ H(0).key = H(1).key)
        => /\ Get(H(0).key) = [data |-> H(0).val, err |-> "nil"]
           /\ Count = H(1).cnt

\* two Puts of different values on one key, with another key in the store
OverwriteWitness ==
    /\ Len(hist) >= 3
    /\ H(1).op = "Put" /\ H(1).err = "nil"
    /\ H(0).op = "Put" /\ H(0).err = "nil"
    /\ H(0).key = H(1).key /\ H(0).val # H(1).val
    /\ Count = 2

\* C4. Delete: right after a Delete(k) that returned nil, Get(k) returns
\* ErrNotFound, Has(k) is false and Count() is one less than before.
DeleteRemoves ==
    (Len(hist) >= 1 /\ H(0).op = "Delete" /\ H(0).err = "nil")
        => /\ Get(H(0).key).err = "ErrNotFound"
           /\ ~Has(H(0).key)
           /\ Len(hist) >= 2
           /\ Count = H(1).cnt - 1

\* a Delete that returned nil and left another key in the store
DeleteWitness ==
    /\ Len(hist) >= 2
    /\ H(0).op = "Delete" /\ H(0).err = "nil"
    /\ H(1).cnt = 2 /\ Count = 1

\* Put(k, v), Delete(k), Put(k2, v2) in a row, all returning nil, with
\* len(k2) + len(v2) <= len(k) + len(v)
ReuseCase ==
    /\ Len(hist) >= 3
    /\ H(2).op = "Put" /\ H(2).err = "nil"
    /\ H(1).op = "Delete" /\ H(1).err = "nil" /\ H(1).key = H(2).key
    /\ H(0).op = "Put" /\ H(0).err = "nil"
    /\ Len(H(0).key) + Len(H(0).val) <= Len(H(2).key) + Len(H(2).val)

\* C10 as claimed. Free-slot reuse in any reachable state: the record of k2
\* is written at the offset the record of k had, and the file is as long as
\* after the first Put (stated for the runs in which no I/O error occurred).
FreeSlotReuseAnyState ==
    (faults = 0 /\ ReuseCase) => (H(0).off = H(2).off /\ H(0).flen = H(2).flen)

\* C10 as amended. The file is as long as after the first Put and the record
\* of k2 is written inside it; it is written at the offset the record of k
\* had when no free slot was left after the first Put and k2 was not in the
\* store before the second Put.
FreeSlotReuse ==
    ReuseCase
        => /\ H(0).flen = H(2).flen
           /\ H(0).off < H(2).flen
           /\ (H(2).nfree = 0 /\ H(0).cnt = H(1).cnt + 1) => H(0).off = H(2).off

\* the slot of k taken again by a smaller record of another key
FreeSlotReuseWitness ==
    /\ ReuseCase
    /\ H(2).nfree = 0 /\ H(0).cnt = H(1).cnt + 1
    /\ H(0).key # H(2).key
    /\ Len(H(0).key) + Len(H(0).val) < Len(H(2).key) + Len(H(2).val)
    /\ H(0).off = H(2).off

\* the sizes (key, data and empty bytes) of the free slots a Put of key
\* can take: those of the free-slot list and that of the old record of key
SlotSizes(key) ==
    {deleted[i].KeySize + deleted[i].DataSize + deleted[i].EmptySize :
        i \in 1..Len(deleted)}
    \cup (IF key \in DOMAIN indexes
          THEN {indexes[key].KeySize + indexes[key].DataSize + indexes[key].EmptySize}
          ELSE {})

\* a Put(key, value) finds a free slot of at least len(key) + len(value)
Fits(key, value) == \E size \in SlotSizes(key) : size >= Len(key) + Len(value)

\* the step is a call that returned nil, of the operation op
Returned(op) ==
    /\ nops' = nops + 1
    /\ hist' # <<>>
    /\ hist'[Len(hist')].op = op
    /\ hist'[Len(hist')].err = "nil"

\* the length of the file after a Put(key, value) that returned nil
PutLength(key, value) ==
    IF Fits(key, value) THEN Len(file) ELSE Len(file) + 14 + Len(key) + Len(value)

\* C22: a Put(k, v) that returns nil leaves the file as long as it was when
\* a free slot, the old record of k among them, has len(k) + len(v) bytes
\* or more; otherwise the file grows by 14 + len(k) + len(v) bytes
NoGrowth ==
    [][Returned("Put")
        => Len(file') = PutLength(hist'[Len(hist')].key, hist'[Len(hist')].val)]_vars

\* a Put over the key's own record of two bytes more, the free-slot list
\* empty before: the file kept its length, and the Put before it grew the
\* file by 14 + 2 + 2 bytes
NoGrowthWitness ==
    /\ Len(hist) = 3
    /\ H(0).op = "Put" /\ H(0).err = "nil"
    /\ H(1).op = "Put" /\ H(1).err = "nil" /\ H(1).key = H(0).key
    /\ H(1).nfree = 0
    /\ Len(H(1).val) = 2 /\ Len(H(0).val) = 0 /\ Len(H(0).key) = 2
    /\ H(0).flen = H(1).flen
    /\ H(2).nfree = 0 /\ H(1).flen = H(2).flen + 18

\* the record of the file at byte offset off, as its bytes say
RecAt(off) ==
    [Deleted   |-> file[off + 5],
     KeySize   |-> file[off + 6],
     DataSize  |-> ((file[off + 7] * 256 + file[off + 8]) * 256 + file[off + 9]) * 256
                        + file[off + 10],
     EmptySize |-> ((file[off + 11] * 256 + file[off + 12]) * 256 + file[off + 13]) * 256
                        + file[off + 14]]

\* the bytes of the key of the record at byte offset off
KeyAt(off) == [i \in 1..file[off + 6] |-> file[off + 14 + i]]

\* the byte offsets of the records of the file from off on, each record
\* 14 bytes and its key, data and empty bytes long
RECURSIVE Records(_)
Records(off) ==
    IF off + 14 > Len(file) THEN {}
    ELSE {off} \cup Records(off + 14 + RecAt(off).KeySize + RecAt(off).DataSize
                                + RecAt(off).EmptySize)

\* the index entries point at records of recs that are not deleted and
\* have their key and sizes; each record of recs that is not deleted has
\* one index entry
IndexMatches(recs) ==
    /\ \A key \in DOMAIN indexes :
        /\ indexes[key].Offset \in recs
        /\ RecAt(indexes[key].Offset) =
                [Deleted |-> 0, KeySize |-> indexes[key].KeySize,
                 DataSize |-> indexes[key].DataSize,
                 EmptySize |-> indexes[key].EmptySize]
        /\ KeyAt(indexes[key].Offset) = key
    /\ \A off \in recs :
        RecAt(off).Deleted = 0
            => Cardinality({key \in DOMAIN indexes : indexes[key].Offset = off}) = 1

\* C27: between operations on an open store, each index entry points at a
\* record of the file that is not deleted, has the key of the entry and the
\* sizes of the entry; each record of the file that is not deleted has
\* exactly one index entry
IndexMatchesFile == opened => IndexMatches(Records(12))

\* two keys and a free slot, the file read again by Open
IndexMatchesFileWitness ==
    /\ opened /\ hist # <<>> /\ H(0).op = "Open" /\ H(0).err = "nil"
    /\ Count = 2 /\ Len(deleted) = 1
    /\ Cardinality(Records(12)) = 3

\* C28: between operations, no two free slots have the same offset and no
\* offset is that of an index entry and of a free slot
DisjointOffsets ==
    /\ \A i \in 1..Len(deleted) : \A j \in 1..Len(deleted) :
            i # j => deleted[i].Offset # deleted[j].Offset
    /\ \A key \in DOMAIN indexes : \A i \in 1..Len(deleted) :
            indexes[key].Offset # deleted[i].Offset

\* a Put has taken one of two free slots; a key and a free slot are left
DisjointOffsetsWitness ==
    /\ Len(hist) >= 2
    /\ H(0).op = "Put" /\ H(0).err = "nil"
    /\ H(1).nfree = 2 /\ H(0).nfree = 1 /\ H(0).flen = H(1).flen
    /\ Count = 1

\* C29: after Open and after every Put and Delete, failed or not, the
\* free-slot list is in ascending order of size and then offset
FreeSorted ==
    \A i \in 1..Len(deleted) : \A j \in 1..Len(deleted) :
        i < j =>
            \/ deleted[i].KeySize + deleted[i].DataSize + deleted[i].EmptySize
                    < deleted[j].KeySize + deleted[j].DataSize + deleted[j].EmptySize
            \/ /\ deleted[i].KeySize + deleted[i].DataSize + deleted[i].EmptySize
                    = deleted[j].KeySize + deleted[j].DataSize + deleted[j].EmptySize
               /\ deleted[i].Offset <= deleted[j].Offset

\* a Delete has put a slot before a larger slot of lower offset
FreeSortedWitness ==
    /\ hist # <<>> /\ H(0).op = "Delete" /\ H(0).err = "nil"
    /\ Len(deleted) = 2
    /\ deleted[1].Offset > deleted[2].Offset
    /\ deleted[1].KeySize + deleted[1].DataSize < deleted[2].KeySize + deleted[2].DataSize

\* the free slots a Put of key searches: those of the free-slot list and
\* the old record of key
FreeSlots(key) ==
    {deleted[i] : i \in 1..Len(deleted)}
    \cup (IF key \in DOMAIN indexes THEN {indexes[key]} ELSE {})

\* the size of a slot: its key, data and empty bytes
SlotSize(slot) == slot.KeySize + slot.DataSize + slot.EmptySize

\* the free slots with room for key and value
Fitting(key, value) ==
    {slot \in FreeSlots(key) : SlotSize(slot) >= Len(key) + Len(value)}

\* slot is of the smallest size of slots and, among those, of the smallest
\* offset
Best(slot, slots) ==
    \A other \in slots :
        \/ SlotSize(slot) < SlotSize(other)
        \/ SlotSize(slot) = SlotSize(other) /\ slot.Offset <= other.Offset

\* the record of key and value is in the file after the step at offset
\* off, not deleted
WrittenAt(off, key, value) ==
    /\ off + 14 + Len(key) + Len(value) <= Len(file')
    /\ file'[off + 5] = 0
    /\ SubSeq(file', off + 15, off + 14 + Len(key) + Len(value)) = key \o value
    /\ key \in DOMAIN indexes' /\ indexes'[key].Offset = off

\* the free-slot list after the step holds the slots of slots, each once
ListIs(slots) ==
    /\ {deleted'[i] : i \in 1..Len(deleted')} = slots
    /\ Len(deleted') = Cardinality(slots)

\* the Put(key, value) of the step wrote at off by best fit
BestFitPut(off, key, value) ==
    /\ WrittenAt(off, key, value)
    /\ IF Fitting(key, value) # {}
       THEN \E slot \in Fitting(key, value) :
                /\ Best(slot, Fitting(key, value))
                /\ off = slot.Offset
                /\ ListIs(FreeSlots(key) \ {slot})
       ELSE /\ off = Len(file)
            /\ ListIs(FreeSlots(key))

\* C30: a Put(k, v) that returns nil writes its record at the offset of
\* the free slot, the old record of k among them, of the smallest size of
\* len(k) + len(v) or more and of the smallest offset among those of that
\* size, and that slot leaves the list; with no such slot the record is
\* written at the end of the file and no slot leaves the list
BestFit ==
    [][Returned("Put")
        => BestFitPut(hist'[Len(hist')].off, hist'[Len(hist')].key,
                      hist'[Len(hist')].val)]_vars

\* a Put after a Delete took the smaller of two slots with room, the old
\* record of its key, and left the larger slot of lower offset in the list
BestFitWitness ==
    /\ Len(hist) >= 2
    /\ H(0).op = "Put" /\ H(0).err = "nil"
    /\ H(1).op = "Delete" /\ H(1).err = "nil"
    /\ H(0).flen = H(1).flen
    /\ Len(deleted) = 1
    /\ deleted[1].Offset < H(0).off
    /\ SlotSize(deleted[1]) > SlotSize(indexes[H(0).key])
    /\ SlotSize(deleted[1]) >= Len(H(0).key) + Len(H(0).val)

\* the 32-bit big-endian number in the four bytes of f from byte offset off
Be32At(f, off) == ((f[off + 1] * 256 + f[off + 2]) * 256 + f[off + 3]) * 256 + f[off + 4]

\* the bytes the record of f at byte offset off takes: its header of 14
\* bytes and the key, data and empty sizes the header says
Footprint(f, off) == 14 + f[off + 6] + Be32At(f, off + 6) + Be32At(f, off + 10)

\* the records of f from off on end where f ends
RECURSIVE Tiles(_, _)
Tiles(f, off) ==
    IF off = Len(f) THEN TRUE
    ELSE IF off + 14 > Len(f) THEN FALSE
    ELSE Tiles(f, off + Footprint(f, off))

\* the byte offsets of the records of f from off on
RECURSIVE RecordOffsets(_, _)
RecordOffsets(f, off) ==
    IF off + 14 > Len(f) THEN {}
    ELSE {off} \cup RecordOffsets(f, off + Footprint(f, off))

\* the step leaves each record of the file at its offset with its footprint
FootprintsKept ==
    \A off \in RecordOffsets(file, 12) :
        /\ off + 14 <= Len(file')
        /\ Footprint(file', off) = Footprint(file, off)

\* the step leaves the file as long as it was or adds one record at its end
LengthByAppend ==
    \/ Len(file') = Len(file)
    \/ /\ Len(file) + 14 <= Len(file')
       /\ Len(file') = Len(file) + Footprint(file', Len(file))

\* C31: in every state the records tile the file from offset 12 to its
\* end, each 14 bytes and its key, data and empty sizes long; no step
\* changes the footprint of the record at an offset, and the file changes
\* length only by one record added at its end
TilingStable ==
    /\ [](Len(file) >= 12 /\ Tiles(file, 12))
    /\ [][FootprintsKept /\ LengthByAppend]_vars

\* a Put wrote into a larger free slot and left empty bytes behind its
\* data; the file has two records or more and kept its length
TilingStableWitness ==
    /\ Len(hist) >= 2
    /\ H(0).op = "Put" /\ H(0).err = "nil"
    /\ H(0).flen = H(1).flen
    /\ indexes[H(0).key].EmptySize > 0
    /\ Cardinality(RecordOffsets(file, 12)) >= 2

\* the step leaves every byte of the file but the five at byte offset off
\* as it was, sets the fifth of them, and leaves the length of the file
FiveBytes(off) ==
    /\ Len(file') = Len(file)
    /\ \A i \in 1..Len(file) : (i <= off \/ i > off + 5) => file'[i] = file[i]
    /\ file'[off + 5] = 1

\* the step moves the entry of key from the index to the free-slot list and
\* leaves every other entry of both
EntryMoved(key) ==
    /\ DOMAIN indexes' = DOMAIN indexes \ {key}
    /\ \A k \in DOMAIN indexes' : indexes'[k] = indexes[k]
    /\ {deleted'[i] : i \in 1..Len(deleted')}
            = {deleted[i] : i \in 1..Len(deleted)} \cup {indexes[key]}
    /\ Len(deleted') = Len(deleted) + 1
    /\ counter' = counter /\ sync' = sync /\ opened' = opened

\* C35: a Delete(k) that returns nil changes in the file only the 4 bytes
\* of the time and the deleted mark at the offset of the record of k; the
\* sizes, key and data of the record, every other record, the header and
\* the length of the file stay, and in memory only the entry of k moves
\* from the index to the free-slot list
DeleteFrame ==
    [][Returned("Delete")
        => /\ hist'[Len(hist')].key \in DOMAIN indexes
           /\ FiveBytes(indexes[hist'[Len(hist')].key].Offset)
           /\ EntryMoved(hist'[Len(hist')].key)]_vars

\* a Delete of the first of two records at a later time: a key is left in
\* the index, the time of the record in the file is that of the Delete
DeleteFrameWitness ==
    /\ Len(hist) >= 2
    /\ H(0).op = "Delete" /\ H(0).err = "nil" /\ H(0).off = headerSize
    /\ H(0).cnt = 1 /\ H(0).nfree = 1
    /\ now = 2 /\ SubSeq(file, headerSize + 1, headerSize + 5) = <<0, 0, 0, 2, 1>>

-----------------------------------------------------------------------------
(* Keys: the sorted list of keys, the cursor last, offset and limit. *)

\* the bytes keys are made of here
KeyBytes == {97, 98}

\* the strings of exactly n bytes
RECURSIVE StrOfLen(_)
StrOfLen(n) ==
    IF n = 0 THEN {<<>>}
    ELSE {Append(s, b) : s \in StrOfLen(n - 1), b \in KeyBytes}

\* the non-empty strings of at most MaxKeyLen bytes
KeyStr == UNION {StrOfLen(n) : n \in 1..MaxKeyLen}

\* s1 < s2 on Go strings: byte-wise lexicographic
RECURSIVE StrLess(_, _)
StrLess(s1, s2) ==
    IF Len(s2) = 0 THEN FALSE
    ELSE IF Len(s1) = 0 THEN TRUE
    ELSE IF s1[1] # s2[1] THEN s1[1] < s2[1]
    ELSE StrLess(Tail(s1), Tail(s2))

\* strings.HasPrefix
HasPrefix(s, prefix) == Len(s) >= Len(prefix) /\ SubSeq(s, 1, Len(prefix)) = prefix

\* the plain order of strings as the less function of the sort
KeysLess_Lexical(s1, s2, asc) == StrLess(s1, s2) = asc

\* the less function Keys gives to sort.Slice
KeysLess(s1, s2, asc) ==
    IF Len(s1) - Len(s2) = 0
    THEN StrLess(s1, s2) = asc
    ELSE (Len(s1) - Len(s2) < 0) = asc

\* sort.Slice over distinct keys: the one list ordered by KeysLess
RECURSIVE KeysInsert(_, _, _)
KeysInsert(keys, e, asc) ==
    IF keys = <<>> THEN <<e>>
    ELSE IF KeysLess(e, keys[1], asc) THEN <<e>> \o keys
    ELSE <<keys[1]>> \o KeysInsert(Tail(keys), e, asc)

RECURSIVE KeysSort(_, _)
KeysSort(S, asc) ==
    IF S = {} THEN <<>>
    ELSE LET e == CHOOSE x \in S : TRUE
         IN KeysInsert(KeysSort(S \ {e}, asc), e, asc)

\* the sort.Search of Keys for last
KeysFound(keys, last, asc) ==
    Search(Len(keys),
           [i \in 0..(Len(keys) - 1) |-> (~StrLess(keys[i + 1], last)) = asc])

\* the keys behind position found, without last itself
KeysSkip(keys, last, found) ==
    IF found < Len(keys) /\ keys[found + 1] = last
    THEN SubSeq(keys, found + 2, Len(keys))
    ELSE SubSeq(keys, found + 1, Len(keys))

KeysCursor(keys, last, asc) ==
    IF last # <<>> THEN KeysSkip(keys, last, KeysFound(keys, last, asc)) ELSE keys

Min(x, y) == IF x < y THEN x ELSE y

KeysOffset(keys, offset) ==
    IF offset > 0 THEN SubSeq(keys, Min(offset, Len(keys)) + 1, Len(keys)) ELSE keys

\* a limit that cuts the list also when it is 0
KeysLimit_ZeroCuts(keys, limit) == SubSeq(keys, 1, Min(limit, Len(keys)))

KeysLimit(keys, limit) ==
    IF limit > 0 THEN SubSeq(keys, 1, Min(limit, Len(keys))) ELSE keys

\* db.Keys on the index idxs
Keys(idxs, prefix, last, offset, limit, asc) ==
    KeysLimit(
        KeysOffset(
            KeysCursor(
                KeysSort({key \in DOMAIN idxs : prefix = <<>> \/ HasPrefix(key, prefix)}, asc),
                last, asc),
            offset),
        limit)

\* the store after put of every key of S with value, on store d
RECURSIVE PutAll(_, _, _)
PutAll(d, S, value) ==
    IF S = {} THEN d
    ELSE LET key == CHOOSE x \in S : TRUE
         IN PutAll(put(d, key, value, 1, "none"), S \ {key}, value)

KeysInitStore(d) ==
    /\ file = d.file
    /\ indexes = d.indexes
    /\ deleted = d.deleted

\* a store of at most MaxKeys keys and the arguments of one Keys call
InitKeys ==
    /\ \E S \in {T \in SUBSET KeyStr : Cardinality(T) <= MaxKeys} :
            KeysInitStore(PutAll(open(<<>>), S, <<>>))
    /\ counter = 0
    /\ sync = TRUE
    /\ opened = TRUE
    /\ now = 1
    /\ faults = 0
    /\ nops = 0
    /\ hist = <<>>
    /\ returned = <<>>
    /\ ConcIdle
    /\ RegIdle
    /\ kPrefix \in {<<>>} \cup KeyStr
    /\ kLast \in {<<>>} \cup KeyStr
    /\ kOffset \in 0..MaxOffset
    /\ kLimit \in 0..MaxOffset
    /\ kAsc \in BOOLEAN
    /\ kDone = FALSE
    /\ kResult = <<>>
    /\ UIDIdle
    /\ WideIdle
    /\ CallIdle

\* db.Keys(prefix, last, offset, limit, asc)
CallKeys ==
    /\ ~kDone
    /\ kResult' = Keys(indexes, kPrefix, kLast, kOffset, kLimit, kAsc)
    /\ kDone' = TRUE
    /\ UNCHANGED <<kPrefix, kLast, kOffset, kLimit, kAsc>>
    /\ UNCHANGED <<engineVars, concVars, regVars, callVars, uidVars, wideVars>>

NextKeys == CallKeys

SpecKeys == InitKeys /\ [][NextKeys]_vars

-----------------------------------------------------------------------------
(* Properties of Keys. *)

\* a comes before b in the order by length, then byte-wise
LenLex(a, b) == Len(a) < Len(b) \/ (Len(a) = Len(b) /\ StrLess(a, b))

Reverse(s) == [i \in 1..Len(s) |-> s[Len(s) + 1 - i]]

\* the list Keys returns without cursor, offset and limit
KeysL == Keys(indexes, kPrefix, <<>>, 0, 0, kAsc)

\* the number of keys of list s that come before last in the direction asc
\* of the length-then-lexicographic order: the insert position of last
InsertPos(s, last, asc) ==
    Cardinality({i \in 1..Len(s) :
                    IF asc THEN LenLex(s[i], last) ELSE LenLex(last, s[i])})

\* C8. Cursor: with L the list Keys returns for a prefix and asc without
\* last, Keys with a non-empty last returns the part of L after last when L
\* holds last, and else the part of L from the position where last would be
\* inserted in the length-then-lexicographic order.
Cursor ==
    (kDone /\ kLast # <<>> /\ kOffset = 0 /\ kLimit = 0)
        => kResult = SubSeq(KeysL,
                            InsertPos(KeysL, kLast, kAsc)
                                + (IF \E i \in 1..Len(KeysL) : KeysL[i] = kLast THEN 2 ELSE 1),
                            Len(KeysL))

\* the call Keys("", "aa", 0, 0, true) on the keys b and aa returns both
CursorFailingInput ==
    ~ (/\ kDone
       /\ DOMAIN indexes = {<<98>>, <<97, 97>>}
       /\ kPrefix = <<>> /\ kLast = <<97, 97>> /\ kOffset = 0 /\ kLimit = 0 /\ kAsc
       /\ KeysL = << <<98>>, <<97, 97>> >>
       /\ kResult = << <<98>>, <<97, 97>> >>)

\* C9. Key ordering: Keys("", "", 0, 0, true) returns every key once, by
\* length and then byte-wise; Keys("", "", 0, 0, false) returns the reverse
\* of that list.
KeyOrdering ==
    (kDone /\ kPrefix = <<>> /\ kLast = <<>> /\ kOffset = 0 /\ kLimit = 0)
        => /\ Len(kResult) = Cardinality(DOMAIN indexes)
           /\ {kResult[i] : i \in 1..Len(kResult)} = DOMAIN indexes
           /\ kAsc => \A i, j \in 1..Len(kResult) :
                            i < j => LenLex(kResult[i], kResult[j])
           /\ ~kAsc => kResult = Reverse(Keys(indexes, <<>>, <<>>, 0, 0, TRUE))

KeyOrderingWitness ==
    /\ kDone /\ kPrefix = <<>> /\ kLast = <<>> /\ kOffset = 0 /\ kLimit = 0
    /\ ~kAsc
    /\ kResult = << <<97, 98>>, <<97, 97>>, <<98>> >>

\* key starts with the bytes of prefix
StartsWith(key, prefix) ==
    /\ Len(prefix) <= Len(key)
    /\ \A i \in 1..Len(prefix) : key[i] = prefix[i]

\* the keys of the store that start with prefix
Matching(prefix) == {key \in DOMAIN indexes : StartsWith(key, prefix)}

\* x comes before y in the Keys ordering of direction asc
Before(x, y, asc) == IF asc THEN LenLex(x, y) ELSE LenLex(y, x)

\* the keys of P in the Keys ordering: place i holds the key with i - 1
\* keys of P before it
Ordered(P, asc) ==
    [i \in 1..Cardinality(P) |->
        CHOOSE key \in P : Cardinality({x \in P : Before(x, key, asc)}) = i - 1]

\* list s without its first min(offset, len(s)) elements, cut to limit
\* elements when limit > 0
Page(s, offset, limit) ==
    [i \in 1..(IF limit > 0 /\ limit < Len(s) - Min(offset, Len(s))
               THEN limit
               ELSE Len(s) - Min(offset, Len(s))) |->
        s[i + Min(offset, Len(s))]]

\* C24: Keys(prefix, "", offset, limit, asc) is the list of the keys that
\* start with prefix, in the Keys ordering, without its first
\* min(offset, length) elements and cut to limit elements when limit > 0
KeysPaging ==
    (kDone /\ kLast = <<>>)
        => kResult = Page(Ordered(Matching(kPrefix), kAsc), kOffset, kLimit)

\* Keys("a", "", 1, 1, true) on the keys a, b and ab returns ab
KeysPagingWitness ==
    /\ kDone /\ kLast = <<>>
    /\ DOMAIN indexes = {<<97>>, <<98>>, <<97, 98>>}
    /\ kPrefix = <<97>> /\ kOffset = 1 /\ kLimit = 1 /\ kAsc
    /\ kResult = << <<97, 98>> >>

-----------------------------------------------------------------------------
(* The registry of open stores: Open, Close, CloseAll, Remove of the      *)
(* package and the method db.Close. The functions of the package hold the *)
(* mutex of the registry from start to end and are one step each; Remove  *)
(* and db.Close are two steps.                                            *)

\* db.close without the test of db.f.Fd(): Sync and Close on a closed file
\* return os.ErrClosed
closeStore_NoCheck(s, fail) ==
    [s EXCEPT !.open = FALSE,
              !.ops = @ \o <<"Sync", "Close">>,
              !.ret = IF ~s.open THEN "ErrClosed" ELSE IF fail THEN "EIO" ELSE "nil",
              !.reclosed = @ \/ ~s.open]

\* db.close on the store s = [path, open, ops, ret, reclosed]: ops are the
\* file operations db.close has issued on its handle, ret is what the last
\* db.close returned, reclosed tells that db.close was called with the
\* handle closed. db.sync is set; fail: Sync or Close returns an error
closeStore(s, fail) ==
    IF ~s.open
    THEN [s EXCEPT !.ret = "nil", !.reclosed = TRUE]
    ELSE [s EXCEPT !.open = FALSE,
                   !.ops = @ \o <<"Sync", "Close">>,
                   !.ret = IF fail THEN "EIO" ELSE "nil"]

\* db.close on store id
close(ss, id, fail) == [ss EXCEPT ![id] = closeStore(@, fail)]

\* open(filename): a new store with an open handle on the file
OpenNew(filename) ==
    /\ Len(stores) < MaxStores
    /\ stores' = Append(stores, [path |-> filename, open |-> TRUE, ops |-> <<>>,
                                 ret |-> "none", reclosed |-> FALSE])
    /\ dbs' = [dbs EXCEPT ![filename] = Len(stores) + 1]
    /\ exists' = exists \cup {filename}

\* Open(filename) that does not look into the registry
RegOpen_NoCache(filename) ==
    /\ OpenNew(filename)
    /\ UNCHANGED <<closing, removing>>
    /\ UNCHANGED <<engineVars, concVars, keysVars, uidVars, wideVars>>

\* Open(filename): the registered store, or a new one that is registered
RegOpen(filename) ==
    /\ IF dbs[filename] # 0
       THEN UNCHANGED <<dbs, stores, exists>>
       ELSE OpenNew(filename)
    /\ UNCHANGED <<closing, removing>>
    /\ UNCHANGED <<engineVars, concVars, keysVars, uidVars, wideVars>>

\* the body of Close(filename); fail: db.close returns an error
CloseRegistered(filename, fail) ==
    IF dbs[filename] # 0
    THEN /\ fail => stores[dbs[filename]].open
         /\ dbs' = [dbs EXCEPT ![filename] = 0]
         /\ stores' = close(stores, dbs[filename], fail)
    ELSE ~fail /\ UNCHANGED <<dbs, stores>>

\* Close(filename)
RegClose(filename, fail) ==
    /\ CloseRegistered(filename, fail)
    /\ UNCHANGED <<closing, removing, exists>>
    /\ UNCHANGED <<engineVars, concVars, keysVars, uidVars, wideVars>>

\* CloseAll
RegCloseAll ==
    /\ dbs' = [p \in Path |-> 0]
    /\ stores' = [id \in 1..Len(stores) |->
                    IF \E p \in Path : dbs[p] = id
                    THEN closeStore(stores[id], FALSE)
                    ELSE stores[id]]
    /\ UNCHANGED <<closing, removing, exists>>
    /\ UNCHANGED <<engineVars, concVars, keysVars, uidVars, wideVars>>

\* Remove(filename), first step: Close(filename); Remove returns when it
\* fails
RegRemoveClose(filename, fail) ==
    /\ filename \notin removing
    /\ CloseRegistered(filename, fail)
    /\ removing' = IF fail THEN removing ELSE removing \cup {filename}
    /\ UNCHANGED <<closing, exists>>
    /\ UNCHANGED <<engineVars, concVars, keysVars, uidVars, wideVars>>

\* Remove(filename), second step: os.Remove(filename)
RegRemoveFile(filename) ==
    /\ filename \in removing
    /\ removing' = removing \ {filename}
    /\ exists' = exists \ {filename}
    /\ UNCHANGED <<dbs, stores, closing>>
    /\ UNCHANGED <<engineVars, concVars, keysVars, uidVars, wideVars>>

\* db.Close() on store id, first step: delete(dbs, db.f.Name())
RegDBCloseUnregister(id) ==
    /\ id \in 1..Len(stores)
    /\ id \notin closing
    /\ dbs' = [dbs EXCEPT ![stores[id].path] = 0]
    /\ closing' = closing \cup {id}
    /\ UNCHANGED <<stores, removing, exists>>
    /\ UNCHANGED <<engineVars, concVars, keysVars, uidVars, wideVars>>

\* db.Close() on store id, second step: db.close()
RegDBCloseFile(id, fail) ==
    /\ id \in closing
    /\ fail => stores[id].open
    /\ stores' = close(stores, id, fail)
    /\ closing' = closing \ {id}
    /\ UNCHANGED <<dbs, removing, exists>>
    /\ UNCHANGED <<engineVars, concVars, keysVars, uidVars, wideVars>>

\* the calls of the registry, nothing else recorded
Open(filename) == RegOpen(filename) /\ UNCHANGED callVars

Close(filename, fail) == RegClose(filename, fail) /\ UNCHANGED callVars

CloseAll == RegCloseAll /\ UNCHANGED callVars

RemoveClose(filename, fail) == RegRemoveClose(filename, fail) /\ UNCHANGED callVars

RemoveFile(filename) == RegRemoveFile(filename) /\ UNCHANGED callVars

DBCloseUnregister(id) == RegDBCloseUnregister(id) /\ UNCHANGED callVars

DBCloseFile(id, fail) == RegDBCloseFile(id, fail) /\ UNCHANGED callVars

\* the program at start: no store is open
InitReg ==
    /\ file = <<>>
    /\ indexes = <<>>
    /\ deleted = <<>>
    /\ counter = 0
    /\ sync = TRUE
    /\ opened = FALSE
    /\ now = 1
    /\ faults = 0
    /\ nops = 0
    /\ hist = <<>>
    /\ returned = <<>>
    /\ ConcIdle
    /\ RegIdle
    /\ KeysIdle
    /\ UIDIdle
    /\ WideIdle
    /\ CallIdle

NextReg ==
    \/ \E filename \in Path : Open(filename)
    \/ \E filename \in Path, fail \in BOOLEAN : Close(filename, fail)
    \/ CloseAll
    \/ \E filename \in Path, fail \in BOOLEAN : RemoveClose(filename, fail)
    \/ \E filename \in Path : RemoveFile(filename)
    \/ \E id \in 1..MaxStores : DBCloseUnregister(id)
    \/ \E id \in 1..MaxStores, fail \in BOOLEAN : DBCloseFile(id, fail)

SpecReg == InitReg /\ [][NextReg]_vars

-----------------------------------------------------------------------------
(* Properties of the registry. *)

\* the stores with an open handle for path p
Live(p) == {id \in 1..Len(stores) : stores[id].path = p /\ stores[id].open}

\* C7. Single live store per path: whatever Open, Close, CloseAll, Remove
\* and db.Close calls have run, at no time do two stores have an open file
\* handle for the same path.
SingleLiveStore == \A p \in Path : Cardinality(Live(p)) <= 1

\* the same with no db.Close and no Remove call under way
SingleLiveStoreAtRest ==
    (closing = {} /\ removing = {}) => SingleLiveStore

\* C16: a db.Close() on a store whose handle is closed returns nil and
\* issues no file operation
CloseIdempotent ==
    [][\A id \in 1..Len(stores) :
            (id \in closing /\ id \notin closing' /\ ~stores[id].open)
                => /\ stores'[id].ret = "nil"
                   /\ stores'[id].ops = stores[id].ops
                   /\ ~stores'[id].open]_vars

\* a store closed once, and then a db.Close() on it that returned nil, the
\* file operations on its handle those of the first close only
CloseIdempotentWitness ==
    \E id \in 1..Len(stores) :
        /\ stores[id].reclosed /\ ~stores[id].open
        /\ stores[id].ret = "nil"
        /\ stores[id].ops = <<"Sync", "Close">>
        /\ id \notin closing

-----------------------------------------------------------------------------
(* Threads calling Get, Has, Count, Put, Delete, Gets, Puts and Deletes   *)
(* on one store. A call takes db.mu, runs its elements under it (one for  *)
(* a single-key call), and releases it. A get is two steps, the lookup in *)
(* db.indexes and the read of the file; a put is two steps, its delete of *)
(* the old record and its write.                                          *)

\* the lists of two keys a batch is called with
KeyPairs == {ks \in Key \X Key : ks[1] # ks[2]}

\* the calls a thread can make
Calls ==
    {[IdleOp EXCEPT !.kind = "Get", !.keys = <<k>>] : k \in Key}
    \cup {[IdleOp EXCEPT !.kind = "Has", !.keys = <<k>>] : k \in Key}
    \cup {[IdleOp EXCEPT !.kind = "Count"]}
    \cup {[IdleOp EXCEPT !.kind = "Put", !.keys = <<k>>, !.vals = <<v>>] :
            k \in Key, v \in Value}
    \cup {[IdleOp EXCEPT !.kind = "Delete", !.keys = <<k>>] : k \in Key}
    \cup {[IdleOp EXCEPT !.kind = "Get", !.batch = TRUE, !.keys = ks] : ks \in KeyPairs}
    \cup {[IdleOp EXCEPT !.kind = "Put", !.batch = TRUE, !.keys = ks, !.vals = <<v, v>>] :
            ks \in KeyPairs, v \in Value}
    \cup {[IdleOp EXCEPT !.kind = "Delete", !.batch = TRUE, !.keys = ks] : ks \in KeyPairs}

Readers == {"Get", "Has", "Count"}

Writers == {"Put", "Delete"}

\* a reader that does not wait for the writer
CanRLock_NoLock == TRUE

\* db.mu.RLock() can return: no thread holds Lock
CanRLock == mu.w = 0

\* a writer that waits for the writer only
CanLock_Shared == mu.w = 0

\* db.mu.Lock() can return: no thread holds Lock or RLock
CanLock == mu.w = 0 /\ mu.r = {}

\* the step of a call after one more of its elements is done
AfterElem(op, first) ==
    IF op.i + 1 >= Len(op.keys) THEN "unlock" ELSE first

\* thread t begins call op
Begin(t, op) ==
    /\ pc[t] = "idle"
    /\ cops < MaxConcOps
    /\ cur' = [cur EXCEPT ![t] = op]
    /\ pc' = [pc EXCEPT ![t] = "lock"]
    /\ cops' = cops + 1
    /\ UNCHANGED <<mu, written>>
    /\ UNCHANGED <<engineVars, regVars, keysVars, uidVars, wideVars, callVars>>

\* db.mu.RLock() of Get, Gets, Has, Count
RLock(t) ==
    /\ pc[t] = "lock"
    /\ cur[t].kind \in Readers
    /\ CanRLock
    /\ mu' = [mu EXCEPT !.r = @ \cup {t}]
    /\ pc' = [pc EXCEPT ![t] = IF cur[t].kind = "Get" THEN "lookup" ELSE "peek"]
    /\ UNCHANGED <<cur, written, cops>>
    /\ UNCHANGED <<engineVars, regVars, keysVars, uidVars, wideVars, callVars>>

\* db.mu.Lock() of Put, Puts, Delete, Deletes
Lock(t) ==
    /\ pc[t] = "lock"
    /\ cur[t].kind \in Writers
    /\ CanLock
    /\ mu' = [mu EXCEPT !.w = t]
    /\ pc' = [pc EXCEPT ![t] = IF cur[t].kind = "Put" THEN "pdelete" ELSE "delete"]
    /\ UNCHANGED <<cur, written, cops>>
    /\ UNCHANGED <<engineVars, regVars, keysVars, uidVars, wideVars, callVars>>

\* db.get, the lookup of the key in db.indexes
GetLookup(t, key) ==
    /\ pc[t] = "lookup"
    /\ key = cur[t].keys[cur[t].i + 1]
    /\ IF key \in DOMAIN indexes
       THEN /\ cur' = [cur EXCEPT ![t].idx = <<indexes[key]>>]
            /\ pc' = [pc EXCEPT ![t] = "read"]
       ELSE /\ cur' = [cur EXCEPT ![t].i = @ + 1,
                                  ![t].res = Append(@, [data |-> <<>>, err |-> "ErrNotFound"])]
            /\ pc' = [pc EXCEPT ![t] = AfterElem(cur[t], "lookup")]
    /\ UNCHANGED <<mu, written, cops>>
    /\ UNCHANGED <<engineVars, regVars, keysVars, uidVars, wideVars, callVars>>

\* db.f.ReadAt of db.get on the handle: on a closed handle a read of one
\* byte or more returns os.ErrClosed
readOn(isopen, f, index) ==
    IF isopen \/ index.DataSize = 0
    THEN getRead(f, index)
    ELSE [data |-> <<>>, err |-> "ErrClosed"]

\* the result r of db.delete or db.put on the handle: the write that fails
\* on a closed handle returns os.ErrClosed
writeOn(isopen, r) ==
    IF ~isopen /\ r.err = "EIO" THEN [r EXCEPT !.err = "ErrClosed"] ELSE r

\* db.get, the read of the data at the place the lookup gave
GetRead(t) ==
    /\ pc[t] = "read"
    /\ cur' = [cur EXCEPT ![t].i = @ + 1,
                          ![t].idx = <<>>,
                          ![t].res = Append(@, readOn(opened, file, cur[t].idx[1]))]
    /\ pc' = [pc EXCEPT ![t] = AfterElem(cur[t], "lookup")]
    /\ UNCHANGED <<mu, written, cops>>
    /\ UNCHANGED <<engineVars, regVars, keysVars, uidVars, wideVars, callVars>>

\* the body of Has and of Count
Peek(t) ==
    /\ pc[t] = "peek"
    /\ cur' = [cur EXCEPT ![t].res =
                  <<IF cur[t].kind = "Has" THEN Has(cur[t].keys[1]) ELSE Count>>]
    /\ pc' = [pc EXCEPT ![t] = "unlock"]
    /\ UNCHANGED <<mu, written, cops>>
    /\ UNCHANGED <<engineVars, regVars, keysVars, uidVars, wideVars, callVars>>

StoreDone(r) ==
    /\ file' = r.file
    /\ indexes' = r.indexes
    /\ deleted' = r.deleted

\* db.put, its call of db.delete
PutDelete(t, r) ==
    /\ pc[t] = "pdelete"
    /\ StoreDone(r)
    /\ cur' = [cur EXCEPT ![t].derr = r.err]
    /\ pc' = [pc EXCEPT ![t] = "pwrite"]
    /\ UNCHANGED <<mu, written, cops>>
    /\ UNCHANGED <<counter, sync, opened, now, faults, nops, hist, returned>>
    /\ UNCHANGED <<regVars, keysVars, uidVars, wideVars, callVars>>

\* db.put after its call of db.delete
PutWrite(t, key, value, r) ==
    /\ pc[t] = "pwrite"
    /\ StoreDone(r)
    /\ written' = [written EXCEPT ![key] = @ \cup {value}]
    /\ cur' = [cur EXCEPT ![t].i = @ + 1, ![t].res = Append(@, r.err)]
    /\ pc' = [pc EXCEPT ![t] = AfterElem(cur[t], "pdelete")]
    /\ UNCHANGED <<mu, cops>>
    /\ UNCHANGED <<counter, sync, opened, now, faults, nops, hist, returned>>
    /\ UNCHANGED <<regVars, keysVars, uidVars, wideVars, callVars>>

\* db.delete of Delete and Deletes
DeleteElem(t, r) ==
    /\ pc[t] = "delete"
    /\ StoreDone(r)
    /\ cur' = [cur EXCEPT ![t].i = @ + 1, ![t].res = Append(@, r.err)]
    /\ pc' = [pc EXCEPT ![t] = AfterElem(cur[t], "delete")]
    /\ UNCHANGED <<mu, written, cops>>
    /\ UNCHANGED <<counter, sync, opened, now, faults, nops, hist, returned>>
    /\ UNCHANGED <<regVars, keysVars, uidVars, wideVars, callVars>>

\* db.mu.RUnlock() or db.mu.Unlock(): the call returns
Unlock(t) ==
    /\ pc[t] = "unlock"
    /\ mu' = [w |-> IF mu.w = t THEN 0 ELSE mu.w, r |-> mu.r \ {t}]
    /\ cur' = [cur EXCEPT ![t] = IdleOp]
    /\ pc' = [pc EXCEPT ![t] = "idle"]
    /\ UNCHANGED <<written, cops>>
    /\ UNCHANGED <<engineVars, regVars, keysVars, uidVars, wideVars, callVars>>

\* a store that holds the keys of S, each with value
InitConcStore(S, value, d) ==
    /\ file = d.file
    /\ indexes = d.indexes
    /\ deleted = d.deleted
    /\ written = [k \in Key |-> IF k \in S THEN {value} ELSE {}]

InitConc ==
    /\ \E S \in SUBSET Key, value \in Value :
            InitConcStore(S, value, PutAll(open(<<>>), S, value))
    /\ counter = 0
    /\ sync = TRUE
    /\ opened = TRUE
    /\ now = 1
    /\ faults = 0
    /\ nops = 0
    /\ hist = <<>>
    /\ returned = <<>>
    /\ mu = [w |-> 0, r |-> {}]
    /\ pc = [t \in Thread |-> "idle"]
    /\ cur = [t \in Thread |-> IdleOp]
    /\ cops = 0
    /\ RegIdle
    /\ KeysIdle
    /\ UIDIdle
    /\ WideIdle
    /\ CallIdle

\* the steps of the calls after their start
ConcBody ==
    \/ \E t \in Thread : RLock(t)
    \/ \E t \in Thread : Lock(t)
    \/ \E t \in Thread, key \in Key : GetLookup(t, key)
    \/ \E t \in Thread : GetRead(t)
    \/ \E t \in Thread : Peek(t)
    \/ \E t \in Thread :
            /\ pc[t] = "pdelete"
            /\ PutDelete(t, writeOn(opened,
                    delete(Store, cur[t].keys[cur[t].i + 1], now, ~opened)))
    \/ \E t \in Thread :
            /\ pc[t] = "pwrite"
            /\ PutWrite(t, cur[t].keys[cur[t].i + 1], cur[t].vals[cur[t].i + 1],
                        writeOn(opened,
                            putDeleted([file |-> file, indexes |-> indexes,
                                        deleted |-> deleted, err |-> cur[t].derr,
                                        ops |-> <<>>],
                                       cur[t].keys[cur[t].i + 1],
                                       cur[t].vals[cur[t].i + 1], now,
                                       IF opened THEN "none" ELSE "write")))
    \/ \E t \in Thread :
            /\ pc[t] = "delete"
            /\ DeleteElem(t, writeOn(opened,
                    delete(Store, cur[t].keys[cur[t].i + 1], now, ~opened)))
    \/ \E t \in Thread : Unlock(t)

NextConc ==
    \/ \E t \in Thread, op \in Calls : Begin(t, op)
    \/ ConcBody

SpecConc == InitConc /\ [][NextConc]_vars

-----------------------------------------------------------------------------
(* db.close, as db.Close, Close, CloseAll and Remove call it, by a thread *)
(* while other threads call the store.                                    *)

\* a call of db.close
CloseOp == [IdleOp EXCEPT !.kind = "close"]

\* db.close, the test of db.f.Fd(): the call returns when the handle is
\* closed
CloseFd(t) ==
    /\ pc[t] = "lock"
    /\ cur[t].kind = "close"
    /\ IF opened
       THEN /\ pc' = [pc EXCEPT ![t] = "crlock"]
            /\ cur' = cur
       ELSE /\ pc' = [pc EXCEPT ![t] = "idle"]
            /\ cur' = [cur EXCEPT ![t] = IdleOp]
    /\ UNCHANGED <<mu, written, cops>>
    /\ UNCHANGED <<engineVars, regVars, keysVars, uidVars, wideVars, callVars>>

\* db.close, db.mu.RLock()
CloseRLock(t) ==
    /\ pc[t] = "crlock"
    /\ CanRLock
    /\ mu' = [mu EXCEPT !.r = @ \cup {t}]
    /\ pc' = [pc EXCEPT ![t] = "csync"]
    /\ UNCHANGED <<cur, written, cops>>
    /\ UNCHANGED <<engineVars, regVars, keysVars, uidVars, wideVars, callVars>>

\* db.close, db.Sync() and db.mu.RUnlock()
CloseSync(t) ==
    /\ pc[t] = "csync"
    /\ mu' = [mu EXCEPT !.r = @ \ {t}]
    /\ pc' = [pc EXCEPT ![t] = "cclose"]
    /\ UNCHANGED <<cur, written, cops>>
    /\ UNCHANGED <<engineVars, regVars, keysVars, uidVars, wideVars, callVars>>

\* db.close, db.f.Close(): the call returns
CloseFile(t) ==
    /\ pc[t] = "cclose"
    /\ opened' = FALSE
    /\ pc' = [pc EXCEPT ![t] = "idle"]
    /\ cur' = [cur EXCEPT ![t] = IdleOp]
    /\ UNCHANGED <<mu, written, cops>>
    /\ UNCHANGED <<file, indexes, deleted, counter, sync, now, faults, nops, hist,
                   returned>>
    /\ UNCHANGED <<regVars, keysVars, uidVars, wideVars, callVars>>

NextClose ==
    \/ \E t \in Thread, op \in Calls \cup {CloseOp} : Begin(t, op)
    \/ ConcBody
    \/ \E t \in Thread : CloseFd(t)
    \/ \E t \in Thread : CloseRLock(t)
    \/ \E t \in Thread : CloseSync(t)
    \/ \E t \in Thread : CloseFile(t)

SpecClose == InitConc /\ [][NextClose]_vars

-----------------------------------------------------------------------------
(* Properties of the calls of several threads. *)

\* thread t holds db.mu
InCall(t) == pc[t] \notin {"idle", "lock"}

\* thread t runs a batch and is between two of its elements
BetweenElems(t) ==
    /\ InCall(t)
    /\ cur[t].batch
    /\ cur[t].i > 0
    /\ cur[t].i < Len(cur[t].keys)
    /\ cur[t].idx = <<>>
    /\ pc[t] # "pwrite"

\* C5. Concurrent reads on shared keys: every get of a Get or Gets call
\* returns ErrNotFound or, with a nil error, a whole value that a put on
\* that key wrote before; never a mixture of two values or bytes of another
\* record.
NoTornRead ==
    \A t \in Thread :
        cur[t].kind = "Get" =>
            \A j \in 1..Len(cur[t].res) :
                \/ cur[t].res[j].err = "ErrNotFound"
                \/ /\ cur[t].res[j].err = "nil"
                   /\ cur[t].res[j].data \in written[cur[t].keys[j]]

\* a Get has read a value of a key that has had two values, while a Put on
\* that key waits for the lock
NoTornReadWitness ==
    \E t \in Thread, u \in Thread :
        /\ pc[t] = "unlock" /\ cur[t].kind = "Get" /\ ~cur[t].batch
        /\ cur[t].res[1].err = "nil"
        /\ Len(cur[t].res[1].data) = 2
        /\ Cardinality(written[cur[t].keys[1]]) >= 2
        /\ pc[u] = "lock" /\ cur[u].kind = "Put" /\ cur[u].keys[1] = cur[t].keys[1]

\* the values a Gets call has got so far are those of the store as it is
GetsOneState ==
    \A t \in Thread :
        (cur[t].kind = "Get" /\ cur[t].batch) =>
            \A j \in 1..Len(cur[t].res) : cur[t].res[j] = Get(cur[t].keys[j])

\* thread u, inside a single-key call, takes the next step of its body
BodyStep(u) ==
    /\ InCall(u)
    /\ ~cur[u].batch
    /\ pc[u] # "unlock"
    /\ pc'[u] # pc[u]

\* C6 as stated. Batch isolation: while a Puts, Deletes or Gets call is
\* between two of its elements no other thread takes a step of the body of a
\* single-key Get, Put, Delete, Has or Count; and the values of one Gets call
\* come from one store state.
BatchIsolationAllCalls ==
    /\ [][\A t \in Thread : \A u \in Thread \ {t} : ~(BetweenElems(t) /\ BodyStep(u))]_vars
    /\ []GetsOneState

\* C6. Batch isolation: while a Puts or Deletes call holds the lock (between
\* its elements too) no other thread is inside any call; while a Gets call
\* is between two of its elements no other thread is inside a Put, Delete,
\* Puts or Deletes; and the values of one Gets call come from one store
\* state.
BatchIsolation ==
    /\ \A t \in Thread : \A u \in Thread \ {t} :
            (InCall(t) /\ cur[t].batch /\ InCall(u))
                => (cur[t].kind = "Get" /\ cur[u].kind \in Readers)
    /\ GetsOneState

\* a Puts call is between its two elements while a Get waits for the lock
BatchIsolationWitness ==
    \E t \in Thread : \E u \in Thread \ {t} :
        /\ BetweenElems(t) /\ cur[t].kind = "Put"
        /\ Cardinality(DOMAIN indexes) = 2
        /\ Get(cur[t].keys[1]).data # Get(cur[t].keys[2]).data
        /\ pc[u] = "lock" /\ cur[u].kind = "Get" /\ cur[u].batch

\* thread u is inside Get, Gets, Put, Puts, Delete or Deletes: it holds
\* db.mu and has not returned
InOperation(u) == InCall(u) /\ cur[u].kind \in {"Get", "Put", "Delete"}

\* C15: the file handle is not closed while another thread is inside Get,
\* Gets, Put, Puts, Delete or Deletes on the store, so a call that took the
\* lock before the close does its file operations on an open handle
CloseExcludes ==
    [][(opened /\ ~opened') => \A u \in Thread : ~InOperation(u)]_vars

-----------------------------------------------------------------------------
(* Properties of the counter. *)

\* C11. Monotonic counter: every successful NextSequence returns a value
\* greater than every value a successful NextSequence returned before on
\* the file, also across Close and Open; when no call has failed the calls
\* return 1, 2, 3, ... in turn, so 1, 2, 3, 4 and, after Close and Open, 5.
MonotonicCounter ==
    /\ \A i, j \in 1..Len(returned) : i < j => returned[i] < returned[j]
    /\ faults = 0 => \A i \in 1..Len(returned) : returned[i] = i

\* four calls, Close, Open and a fifth call that returned 5
MonotonicCounterWitness ==
    /\ returned = <<1, 2, 3, 4, 5>>
    /\ Len(hist) = 3
    /\ H(2).op = "Close" /\ H(1).op = "Open" /\ H(0).op = "NextSequence"
    /\ H(0).seq = 5 /\ H(0).err = "nil"

-----------------------------------------------------------------------------
(* Open of a file that a store wrote and that was cut short or had a      *)
(* byte of its signature overwritten.                                     *)

\* the store d after Delete of the keys of S
RECURSIVE DeleteAll(_, _)
DeleteAll(d, S) ==
    IF S = {} THEN d
    ELSE LET key == CHOOSE x \in S : TRUE
         IN DeleteAll(delete(d, key, 1, FALSE), S \ {key})

\* the first n bytes of f, byte i of them set to 0 (none when i = 0)
Damage(f, n, i) ==
    [j \in 1..n |-> IF j = i THEN 0 ELSE f[j]]

\* the file of the store d, cut to n bytes, byte i set to 0
InitOpenFile(d, n, i) ==
    /\ file = Damage(d.file, n, i)
    /\ before = [file |-> d.file, indexes |-> d.indexes, deleted |-> d.deleted]

\* the store that wrote the file: the keys of S put with value, those of T
\* deleted again
InitOpenStore(d) ==
    \E n \in 0..Len(d.file), i \in 0..4 : InitOpenFile(d, n, i)

InitOpen ==
    /\ \E S \in SUBSET Key, value \in Value :
        \E T \in SUBSET S :
            InitOpenStore(DeleteAll(PutAll(open(<<>>), S, value), T))
    /\ indexes = <<>>
    /\ deleted = <<>>
    /\ counter = 0
    /\ sync = TRUE
    /\ opened = FALSE
    /\ now = 1
    /\ faults = 0
    /\ nops = 0
    /\ hist = <<>>
    /\ returned = <<>>
    /\ ConcIdle
    /\ dbs = [p \in Path |-> 0]
    /\ stores = <<>>
    /\ closing = {}
    /\ removing = {}
    /\ exists = {"p"}
    /\ KeysIdle
    /\ UIDIdle
    /\ WideIdle
    /\ call = [op |-> "none"]
    /\ ret = [err |-> "nil"]
    /\ trace = <<>>

\* Open(filename) after open(filename) returned r: the store is registered
\* when open gave no error
OpenFileDone(filename, r) ==
    /\ OpenDone(r)
    /\ IF r.err = "nil"
       THEN OpenNew(filename)
       ELSE UNCHANGED <<dbs, stores, exists>>

\* Open(filename) of the file
OpenFile(filename) ==
    /\ ~opened
    /\ hist = <<>>
    /\ dbs[filename] = 0
    /\ OpenFileDone(filename, open(file))
    /\ UNCHANGED <<now, faults, nops, returned, closing, removing>>
    /\ UNCHANGED <<concVars, keysVars, uidVars, wideVars, callVars>>

NextOpen == OpenFile("p")

SpecOpen == InitOpen /\ [][NextOpen]_vars

-----------------------------------------------------------------------------
(* Properties of open. *)

\* the first 4 bytes of the file are not 0xD3EFAA03
WrongMagic == Len(file) < 4 \/ SubSeq(file, 1, 4) # <<211, 239, 170, 3>>

\* the records of the store that wrote the file
Written == {before.indexes[k] : k \in DOMAIN before.indexes}
               \cup {before.deleted[i] : i \in 1..Len(before.deleted)}

\* the file ends inside the header of record rec
TornHeader(rec) ==
    rec.Offset < Len(file) /\ Len(file) < rec.Offset + storedIndexSize

\* the file ends inside the key of record rec
TornKey(rec) ==
    /\ rec.Offset + storedIndexSize <= Len(file)
    /\ Len(file) < rec.Offset + storedIndexSize + rec.KeySize

\* no entry of the index or of the free slots is at byte offset off
NoEntryAt(off) ==
    /\ \A k \in DOMAIN indexes : indexes[k].Offset # off
    /\ \A i \in 1..Len(deleted) : deleted[i].Offset # off

\* C12. Torn tail on open: Open of a file whose last record is cut inside
\* its 14-byte header or inside its key succeeds, and the cut record adds
\* no entry to the index and none to the free slots.
TornTail ==
    \A rec \in Written :
        (Len(hist) = 1 /\ ~WrongMagic /\ (TornHeader(rec) \/ TornKey(rec)))
            => (H(0).err = "nil" /\ opened /\ NoEntryAt(rec.Offset))

\* Open of the 12 bytes of the header and 5 bytes of a record fails
TornTailFailingInput ==
    ~ (/\ Len(hist) = 1
       /\ Len(file) = headerSize + 5
       /\ ~WrongMagic
       /\ H(0).err = "ErrUnexpectedEOF"
       /\ ~opened)

\* Open of a file that ends after the first of the two key bytes of its one
\* record gives a store with the key of that byte and a zero byte
TornTailPhantomKey ==
    ~ (/\ Len(hist) = 1
       /\ Len(file) = headerSize + storedIndexSize + 1
       /\ DOMAIN before.indexes = {<<98, 99>>}
       /\ H(0).err = "nil"
       /\ DOMAIN indexes = {<<98, 0>>})

-----------------------------------------------------------------------------
(* One call of the API on a store: what it returns, the file operations   *)
(* it issues, in order, and the store before it.  A failed file operation *)
(* is written with a ! after its name.                                    *)

MaxBatch == 2

\* values to store: no bytes, the JSON texts 1 and [], and the text x
CallValue == {<<>>, <<49>>, <<91, 93>>, <<120>>}

\* lists of at most MaxBatch keys, a key may come twice
KeyLists == UNION {[1..n -> Key] : n \in 0..MaxBatch}

\* the keys of a map in the orders range can give them
KeyOrders == {ks \in KeyLists : \A i, j \in 1..Len(ks) : i # j => ks[i] # ks[j]}

\* the JSON texts of at most two bytes, as json.Valid accepts them: a digit,
\* a number of two digits, a negative digit, [], {}, "", a digit with one
\* byte of white space; no bytes is not a JSON text
JSONSpace == {32, 9, 10, 13}

JSONTexts ==
    {<<c>> : c \in 48..57}
        \cup {<<c, e>> : c \in 49..57, e \in 48..57}
        \cup {<<45, c>> : c \in 48..57}
        \cup {<<91, 93>>, <<123, 125>>, <<34, 34>>}
        \cup {<<w, c>> : w \in JSONSpace, c \in 48..57}
        \cup {<<c, w>> : c \in 48..57, w \in JSONSpace}

JSONValid(data) == data \in JSONTexts

\* the call of db.Sync that ends a writing call never made
Synced_Never(r, fault) == r

\* the end of a writing call: db.Sync when the call made no error and
\* db.sync is set
Synced(r, fault) ==
    IF r.err = "nil" /\ sync
    THEN [r EXCEPT !.err = IF fault = "sync" THEN "EIO" ELSE "nil",
                   !.ops = Append(@, IF fault = "sync" THEN "Sync!" ELSE "Sync")]
    ELSE r

\* the store as the argument of the first call of delete or put
Started == [file |-> file, indexes |-> indexes, deleted |-> deleted,
            err |-> "nil", ops |-> <<>>]

\* db.get with the file operation it issues; a read of no bytes cannot fail
getOps(r, read) ==
    [data |-> r.data, err |-> r.err, ops |-> IF read THEN <<"ReadAt">> ELSE <<>>]

getIO(d, key, fail) ==
    IF fail /\ key \in DOMAIN d.indexes /\ d.indexes[key].DataSize > 0
    THEN [data |-> <<>>, err |-> "EIO", ops |-> <<"ReadAt!">>]
    ELSE getOps(get(d, key), key \in DOMAIN d.indexes)

\* the loop of Gets and GetsJSON stops at any error
getsStop_Any(err) == err # "nil"

\* the loop of Gets and GetsJSON stops at an error other than ErrNotFound
getsStop(err) == err # "nil" /\ err # "ErrNotFound"

\* the loop of Deletes stops at any error
deletesStop_Any(err) == err # "nil"

\* the loop of Deletes stops at an error other than ErrNotFound
deletesStop(err) == err # "nil" /\ err # "ErrNotFound"

RECURSIVE getsFrom(_, _, _, _, _, _, _)

\* one round of the loop of Gets (json = FALSE) and GetsJSON (json = TRUE)
\* after db.get returned r
getsElem(r, d, keys, i, fi, json, vals, ops) ==
    IF getsStop(r.err)
    THEN [vals |-> <<>>, nilvals |-> TRUE, err |-> r.err, ops |-> ops \o r.ops]
    ELSE IF json /\ ~JSONValid(r.data)
    THEN [vals |-> <<>>, nilvals |-> TRUE, err |-> "invalid JSON format",
          ops |-> ops \o r.ops]
    ELSE getsFrom(d, keys, i + 1, fi, json,
                  Append(vals, [isnil |-> r.err # "nil", data |-> r.data]),
                  ops \o r.ops)

\* the loop of Gets and GetsJSON from key i on; the read of key fi fails
getsFrom(d, keys, i, fi, json, vals, ops) ==
    IF i > Len(keys)
    THEN [vals |-> vals, nilvals |-> FALSE, err |-> "nil", ops |-> ops]
    ELSE getsElem(getIO(d, keys[i], i = fi), d, keys, i, fi, json, vals, ops)

RECURSIVE deletesFrom(_, _, _, _, _)

\* one round of the loop of Deletes after db.delete returned r
deletesElem(r, ops, keys, i, t, fi) ==
    IF deletesStop(r.err)
    THEN [r EXCEPT !.ops = ops \o @]
    ELSE deletesFrom([r EXCEPT !.ops = ops \o @], keys, i + 1, t, fi)

\* the loop of Deletes from key i on; the write of key fi fails
deletesFrom(r, keys, i, t, fi) ==
    IF i > Len(keys)
    THEN [r EXCEPT !.err = "nil"]
    ELSE deletesElem(delete(r, keys[i], t, i = fi), r.ops, keys, i, t, fi)

RECURSIVE putsFrom(_, _, _, _, _, _, _)

\* a Puts that puts the store back as it was when a put fails
putsElem_Rollback(r, ops, keys, value, i, t, fi, fault) ==
    IF r.err # "nil"
    THEN [r EXCEPT !.file = file, !.indexes = indexes, !.deleted = deleted,
                   !.ops = ops \o @]
    ELSE putsFrom([r EXCEPT !.ops = ops \o @], keys, value, i + 1, t, fi, fault)

\* one round of the loop of Puts after db.put returned r
putsElem(r, ops, keys, value, i, t, fi, fault) ==
    IF r.err # "nil"
    THEN [r EXCEPT !.ops = ops \o @]
    ELSE putsFrom([r EXCEPT !.ops = ops \o @], keys, value, i + 1, t, fi, fault)

\* the loop of Puts from key i on; the file operation fault of key fi fails
putsFrom(r, keys, value, i, t, fi, fault) ==
    IF i > Len(keys)
    THEN r
    ELSE putsElem(put(r, keys[i], value, t, IF i = fi THEN fault ELSE "none"),
                  r.ops, keys, value, i, t, fi, fault)

\* a call op(keys, value) with the fault at element fi returned: r is the
\* store after it with the error and the file operations, vals the list
\* returned (nilvals: no list), c the counter
CallDone(op, keys, value, fi, fault, r, vals, nilvals, c) ==
    /\ fault # "none" => r.err = "EIO"
    /\ call' = [op |-> op, keys |-> keys, value |-> value, fi |-> fi, fault |-> fault]
    /\ ret' = [err |-> r.err, vals |-> vals, nilvals |-> nilvals, seq |-> c]
    /\ trace' = r.ops
    /\ before' = [file |-> file, indexes |-> indexes, deleted |-> deleted,
                  counter |-> counter]
    /\ file' = r.file
    /\ indexes' = r.indexes
    /\ deleted' = r.deleted
    /\ counter' = c
    /\ UNCHANGED <<sync, opened, now, faults, nops, hist, returned>>
    /\ UNCHANGED <<concVars, regVars, keysVars, uidVars, wideVars>>

\* a reading call returned g
ReadDone(op, keys, fi, g) ==
    CallDone(op, keys, <<>>, fi, IF fi = 0 THEN "none" ELSE "read",
             [file |-> file, indexes |-> indexes, deleted |-> deleted,
              err |-> g.err, ops |-> g.ops],
             g.vals, g.nilvals, counter)

\* db.Get(key)
CallGetDone(key, fi, g) ==
    ReadDone("Get", <<key>>, fi, 
             [vals |-> <<[isnil |-> g.err # "nil", data |-> g.data]>>,
              nilvals |-> FALSE, err |-> g.err, ops |-> g.ops])

CallGet(key, fi) ==
    /\ call.op = "none"
    /\ CallGetDone(key, fi, getIO(Store, key, fi = 1))

\* db.Gets(keys...)
CallGets(keys, fi) ==
    /\ call.op = "none"
    /\ ReadDone("Gets", keys, fi, getsFrom(Store, keys, 1, fi, FALSE, <<>>, <<>>))

\* db.GetsJSON(keys...)
CallGetsJSON(keys, fi) ==
    /\ call.op = "none"
    /\ ReadDone("GetsJSON", keys, fi, getsFrom(Store, keys, 1, fi, TRUE, <<>>, <<>>))

\* db.Put(key, value)
CallPut(key, value, fault) ==
    /\ call.op = "none"
    /\ CallDone("Put", <<key>>, value, IF fault = "none" THEN 0 ELSE 1, fault,
                Synced(put(Started, key, value, now,
                           IF fault = "sync" THEN "none" ELSE fault), fault),
                <<>>, TRUE, counter)

\* db.Puts(values), the keys of the map in the order keys, each with value
CallPuts(keys, value, fi, fault) ==
    /\ call.op = "none"
    /\ (fi = 0) = (fault \in {"none", "sync"})
    /\ CallDone("Puts", keys, value, fi, fault,
                Synced(putsFrom(Started, keys, value, 1, now, fi, fault), fault),
                <<>>, TRUE, counter)

\* db.Delete(key)
CallDelete(key, fault) ==
    /\ call.op = "none"
    /\ CallDone("Delete", <<key>>, <<>>, IF fault = "none" THEN 0 ELSE 1, fault,
                Synced(delete(Started, key, now, fault = "write"), fault),
                <<>>, TRUE, counter)

\* db.Deletes(keys...)
CallDeletes(keys, fi, fault) ==
    /\ call.op = "none"
    /\ (fi = 0) = (fault \in {"none", "sync"})
    /\ CallDone("Deletes", keys, <<>>, fi, fault,
                Synced(deletesFrom(Started, keys, 1, now, fi), fault),
                <<>>, TRUE, counter)

\* a NextSequence that writes the counter behind the header
nextSequenceWrite_AtRecords(fault) ==
    IF fault = "write"
    THEN [file |-> file, indexes |-> indexes, deleted |-> deleted,
          err |-> "EIO", ops |-> <<"WriteAt!">>]
    ELSE [file |-> WriteAt(file, BE(counter + 1, 8), headerSize), indexes |-> indexes,
          deleted |-> deleted, err |-> "nil", ops |-> <<"WriteAt">>]

\* the write of db.NextSequence
nextSequenceWrite(fault) ==
    IF fault = "write"
    THEN [file |-> file, indexes |-> indexes, deleted |-> deleted,
          err |-> "EIO", ops |-> <<"WriteAt!">>]
    ELSE [file |-> WriteAt(file, BE(counter + 1, 8), 4), indexes |-> indexes,
          deleted |-> deleted, err |-> "nil", ops |-> <<"WriteAt">>]

\* db.NextSequence()
CallNextSequence(fault) ==
    /\ call.op = "none"
    /\ CallDone("NextSequence", <<>>, <<>>, IF fault = "none" THEN 0 ELSE 1, fault,
                Synced(nextSequenceWrite(fault), fault), <<>>, TRUE, counter + 1)

\* db.SetSync(b), before the call
SetSync(b) ==
    /\ call.op = "none"
    /\ sync # b
    /\ sync' = b
    /\ UNCHANGED <<file, indexes, deleted, counter, opened, now, faults, nops,
                   hist, returned>>
    /\ UNCHANGED <<concVars, regVars, keysVars, uidVars, wideVars, callVars>>

\* an open store written by Puts of two values and Deletes
InitCall ==
    /\ \E S \in SUBSET Key, T \in SUBSET Key, v \in CallValue, w \in CallValue :
        \E U \in SUBSET (S \cup T) :
            KeysInitStore(DeleteAll(PutAll(PutAll(open(<<>>), S, v), T, w), U))
    /\ counter = 0
    /\ sync = TRUE
    /\ opened = TRUE
    /\ now = 1
    /\ faults = 0
    /\ nops = 0
    /\ hist = <<>>
    /\ returned = <<>>
    /\ ConcIdle
    /\ RegIdle
    /\ KeysIdle
    /\ UIDIdle
    /\ WideIdle
    /\ CallIdle

NextCall ==
    \/ \E b \in BOOLEAN : SetSync(b)
    \/ \E key \in Key, fi \in 0..1 : CallGet(key, fi)
    \/ \E keys \in KeyLists : \E fi \in 0..Len(keys) : CallGets(keys, fi)
    \/ \E keys \in KeyLists : \E fi \in 0..Len(keys) : CallGetsJSON(keys, fi)
    \/ \E key \in Key, value \in CallValue,
          fault \in {"none", "delete", "seek", "write", "sync"} :
            CallPut(key, value, fault)
    \/ \E keys \in KeyOrders, value \in CallValue,
          fault \in {"none", "delete", "seek", "write", "sync"} :
            \E fi \in 0..Len(keys) : CallPuts(keys, value, fi, fault)
    \/ \E key \in Key, fault \in {"none", "write", "sync"} : CallDelete(key, fault)
    \/ \E keys \in KeyLists, fault \in {"none", "write", "sync"} :
            \E fi \in 0..Len(keys) : CallDeletes(keys, fi, fault)
    \/ \E fault \in {"none", "write", "sync"} : CallNextSequence(fault)

SpecCall == InitCall /\ [][NextCall]_vars

-----------------------------------------------------------------------------
(* Properties of one call. *)

\* the calls that write the file
WritingCall == call.op \in {"Put", "Delete", "Puts", "Deletes", "NextSequence"}

\* the keys the call names
Named == {call.keys[i] : i \in 1..Len(call.keys)}

\* the call issued a write of the file, failed or not
Wrote == \E i \in 1..Len(trace) : trace[i] \in {"WriteAt", "WriteAt!"}

\* index, free-slot list and file are those before the call
StoreUnchanged ==
    /\ file = before.file
    /\ indexes = before.indexes
    /\ deleted = before.deleted

\* C14: in sync mode, when Put, Delete, Puts, Deletes or NextSequence
\* returns nil, the last file operation of the call is a Sync that
\* succeeded, so every write of the call is followed by it
Durability ==
    (WritingCall /\ sync /\ ret.err = "nil")
        => /\ trace # <<>>
           /\ trace[Len(trace)] = "Sync"
           /\ \A i \in 1..Len(trace) :
                trace[i] = "WriteAt" => \E j \in (i + 1)..Len(trace) : trace[j] = "Sync"

\* a Puts of two keys in sync mode, one over its old record, made its
\* writes and then the Sync
DurabilityWitness ==
    /\ call.op = "Puts" /\ Len(call.keys) = 2 /\ sync /\ ret.err = "nil"
    /\ trace = <<"WriteAt", "WriteAt", "Seek", "WriteAt", "Sync">>

\* C17: Get and Delete of a key that is not in the index return
\* ErrNotFound, Get with a nil value; they write nothing and leave index,
\* free-slot list and file as they were
AbsentKey ==
    (call.op \in {"Get", "Delete"} /\ call.keys[1] \notin DOMAIN before.indexes)
        => /\ ret.err = "ErrNotFound"
           /\ call.op = "Get" => ret.vals = <<[isnil |-> TRUE, data |-> <<>>]>>
           /\ ~Wrote
           /\ StoreUnchanged

\* a Delete of an absent key on a store that holds another key and a free
\* slot
AbsentKeyWitness ==
    /\ call.op = "Delete" /\ call.keys[1] \notin DOMAIN before.indexes
    /\ before.indexes # <<>> /\ before.deleted # <<>>
    /\ ret.err = "ErrNotFound"

\* the value the store held for key before the call
Held(key) == get([file |-> before.file, indexes |-> before.indexes,
                  deleted |-> before.deleted], key)

\* C18: Gets without I/O error returns nil and a list as long as the list
\* of keys, with the stored value at the place of a present key and nil at
\* the place of an absent one; with an I/O error it returns the error and
\* no list
GetsMissing ==
    call.op = "Gets"
        => IF call.fi = 0
           THEN /\ ret.err = "nil"
                /\ ~ret.nilvals
                /\ Len(ret.vals) = Len(call.keys)
                /\ \A i \in 1..Len(call.keys) :
                     IF call.keys[i] \in DOMAIN before.indexes
                     THEN ret.vals[i] = [isnil |-> FALSE, data |-> Held(call.keys[i]).data]
                     ELSE ret.vals[i].isnil
           ELSE ret.err = "EIO" /\ ret.nilvals

\* a Gets of a present key with a value of some bytes and an absent key
GetsMissingWitness ==
    /\ call.op = "Gets" /\ call.fi = 0 /\ Len(call.keys) = 2
    /\ call.keys[1] \in DOMAIN before.indexes
    /\ call.keys[2] \notin DOMAIN before.indexes
    /\ ret.err = "nil"
    /\ ret.vals[1].data # <<>> /\ ret.vals[2].isnil

\* C19: GetsJSON of keys of which some are absent, all stored values JSON
\* texts, returns nil and a list with nil at the places of the absent keys
GetsJSONMissing ==
    (/\ call.op = "GetsJSON" /\ call.fi = 0
     /\ \E key \in Named : key \notin DOMAIN before.indexes
     /\ \A key \in DOMAIN before.indexes : JSONValid(Held(key).data))
        => /\ ret.err = "nil"
           /\ ~ret.nilvals
           /\ \A i \in 1..Len(call.keys) :
                call.keys[i] \notin DOMAIN before.indexes => ret.vals[i].isnil

\* GetsJSON("a", "bc") on a store that holds only "a" with the value 1
\* returns no error
GetsJSONMissingFailingInput ==
    ~ /\ call.op = "GetsJSON" /\ call.keys = <<<<97>>, <<98, 99>>>> /\ call.fi = 0
      /\ DOMAIN before.indexes = {<<97>>}
      /\ Held(<<97>>).data = <<49>>
      /\ ret.err = "invalid JSON format"

\* C20: Deletes without I/O error returns nil, absent keys or not; after it
\* no key of the list is in the index and every other key has the value it
\* had
DeletesMissing ==
    (call.op = "Deletes" /\ call.fault = "none")
        => /\ ret.err = "nil"
           /\ \A key \in Named : key \notin DOMAIN indexes
           /\ \A key \in Key \ Named :
                /\ (key \in DOMAIN indexes) = (key \in DOMAIN before.indexes)
                /\ Get(key) = Held(key)

\* a Deletes of an absent key and then a present one, another key kept
DeletesMissingWitness ==
    /\ call.op = "Deletes" /\ call.fault = "none" /\ Len(call.keys) = 2
    /\ call.keys[1] \notin DOMAIN before.indexes
    /\ call.keys[2] \in DOMAIN before.indexes
    /\ ret.err = "nil"
    /\ call.keys[2] \notin DOMAIN indexes

\* the elements of the batch whose put or delete was done when the call
\* returned: all of them when the fault is none or the Sync, those before
\* element fi otherwise
Completed ==
    IF call.fi = 0 THEN 1..Len(call.keys) ELSE 1..(call.fi - 1)

\* C21: when Puts fails at some key with a file error, every key whose put
\* was done before is in the index and Get on it returns the new value
PartialBatch ==
    (call.op = "Puts" /\ ret.err = "EIO")
        => \A i \in Completed :
            /\ call.keys[i] \in DOMAIN indexes
            /\ Get(call.keys[i]) = [data |-> call.value, err |-> "nil"]

\* a Puts of two keys whose second write failed: the first key has a new
\* value of some bytes that it did not have before
PartialBatchWitness ==
    /\ call.op = "Puts" /\ Len(call.keys) = 2 /\ call.fi = 2 /\ call.fault = "write"
    /\ ret.err = "EIO"
    /\ call.value # <<>>
    /\ Held(call.keys[1]).data # call.value
    /\ Get(call.keys[1]).data = call.value

\* the call is a Put that returned the error of a write or seek of the
\* file that failed
FailedPut ==
    /\ call.op = "Put" /\ ret.err = "EIO"
    /\ trace # <<>> /\ trace[Len(trace)] \in {"WriteAt!", "Seek!"}

\* C36: when Put(k, v) returns an error because a write or seek of the
\* file failed, the index and the free-slot list are those before the call,
\* and Get of a key stored before returns what it returned before
FailedPutUnchanged ==
    FailedPut
        => /\ indexes = before.indexes
           /\ deleted = before.deleted
           /\ \A key \in DOMAIN before.indexes : Get(key) = Held(key)

\* a Put over the record of its key whose write of the new record failed:
\* the old record was marked deleted before, and the key is not found
FailedPutLosesKey ==
    ~ (/\ FailedPut
       /\ call.keys[1] \in DOMAIN before.indexes
       /\ Held(call.keys[1]).err = "nil"
       /\ trace[1] = "WriteAt"
       /\ Get(call.keys[1]).err = "ErrNotFound")

\* a Put of a key not in the store whose write into a free slot failed:
\* the slot has left the free-slot list and the key is not in the index
FailedPutLosesSlot ==
    ~ (/\ FailedPut
       /\ call.keys[1] \notin DOMAIN before.indexes
       /\ trace = <<"WriteAt!">>
       /\ indexes = before.indexes
       /\ Len(deleted) + 1 = Len(before.deleted))

\* every offset of the index and of the free-slot list is 12 or more
OffsetsBehindHeader ==
    /\ \A key \in DOMAIN indexes : indexes[key].Offset >= 12
    /\ \A i \in 1..Len(deleted) : deleted[i].Offset >= 12

\* the bytes of the file from byte offset a to b - 1 are those before the
\* call
SameBytes(a, b) ==
    \A i \in (a + 1)..b : i <= Len(before.file) /\ i <= Len(file) /\ file[i] = before.file[i]

\* C40: every offset of the index and of the free-slot list is 12 or
\* more; Put, Puts, Delete and Deletes leave bytes 0..11 of the file as
\* they were; NextSequence changes only bytes 4..11 and leaves the index,
\* the free-slot list, the records and the length of the file
HeaderApart ==
    /\ OffsetsBehindHeader
    /\ call.op \in {"Put", "Puts", "Delete", "Deletes"} => SameBytes(0, 12)
    /\ call.op = "NextSequence"
            => /\ SameBytes(0, 4)
               /\ Len(file) = Len(before.file)
               /\ SameBytes(12, Len(file))
               /\ indexes = before.indexes
               /\ deleted = before.deleted

\* a NextSequence on a store with a key and a free slot returned 1: the
\* last byte of the counter in the file is 1
HeaderApartWitness ==
    /\ call.op = "NextSequence" /\ ret.err = "nil" /\ ret.seq = 1
    /\ file[12] = 1 /\ before.file[12] = 0
    /\ indexes # <<>> /\ deleted # <<>>
    /\ Len(file) > 12

-----------------------------------------------------------------------------
(* The calls of the registry with a log of them: trace holds, for each    *)
(* call in turn, its name, the path it is about, the store Open returned  *)
(* and the number of stores built so far.                                 *)

MaxRegOps == 5

\* the call op on path, id the store it returned or works on, is logged
Logged(op, path, id) ==
    /\ Len(trace) < MaxRegOps
    /\ trace' = Append(trace, [op |-> op, path |-> path, id |-> id,
                               built |-> Len(stores')])
    /\ UNCHANGED <<call, ret, before>>

LogOpen(filename) == RegOpen(filename) /\ Logged("Open", filename, dbs'[filename])

LogClose(filename, fail) == RegClose(filename, fail) /\ Logged("Close", filename, 0)

LogCloseAll == RegCloseAll /\ Logged("CloseAll", "", 0)

LogRemoveClose(filename, fail) ==
    RegRemoveClose(filename, fail) /\ Logged("Remove", filename, 0)

LogRemoveFile(filename) == RegRemoveFile(filename) /\ Logged("os.Remove", filename, 0)

LogDBCloseUnregister(id) ==
    RegDBCloseUnregister(id) /\ Logged("db.Close", stores[id].path, id)

LogDBCloseFile(id) ==
    RegDBCloseFile(id, FALSE) /\ Logged("db.close", stores[id].path, id)

NextCache ==
    \/ \E filename \in Path : LogOpen(filename)
    \/ \E filename \in Path, fail \in BOOLEAN : LogClose(filename, fail)
    \/ LogCloseAll
    \/ \E filename \in Path, fail \in BOOLEAN : LogRemoveClose(filename, fail)
    \/ \E filename \in Path : LogRemoveFile(filename)
    \/ \E id \in 1..MaxStores : LogDBCloseUnregister(id)
    \/ \E id \in 1..MaxStores : LogDBCloseFile(id)

SpecCache == InitReg /\ [][NextCache]_vars

\* call e closes the store of path p in the registry: Close(p), Remove(p),
\* CloseAll, or db.Close() of a store of p
Closes(e, p) ==
    \/ e.op \in {"Close", "Remove", "db.Close"} /\ e.path = p
    \/ e.op = "CloseAll"

\* calls i and j are Open(p), with no Open(p) between them
OpenPair(i, j, p) ==
    /\ i < j
    /\ trace[i].op = "Open" /\ trace[i].path = p
    /\ trace[j].op = "Open" /\ trace[j].path = p
    /\ \A k \in (i + 1)..(j - 1) : ~(trace[k].op = "Open" /\ trace[k].path = p)

\* calls i and j are a close of p and the next Open(p)
ReopenPair(i, j, p) ==
    /\ i < j
    /\ Closes(trace[i], p)
    /\ trace[j].op = "Open" /\ trace[j].path = p
    /\ \A k \in (i + 1)..(j - 1) : ~(trace[k].op = "Open" /\ trace[k].path = p)

\* call j built a store
Built(j) == trace[j].built = (IF j = 1 THEN 0 ELSE trace[j - 1].built) + 1

\* C23: two Open(p) with no close of p between them return the same store
\* and the second builds none; the next Open(p) after a close of p builds a
\* new store and returns it
CachedOpen ==
    \A p \in Path : \A i \in 1..Len(trace) : \A j \in 1..Len(trace) :
        /\ (OpenPair(i, j, p) /\ \A k \in (i + 1)..(j - 1) : ~Closes(trace[k], p))
                => (trace[j].id = trace[i].id /\ ~Built(j))
        /\ ReopenPair(i, j, p)
                => (Built(j) /\ trace[j].id = trace[j].built)

\* Open(p), Open(p) again with an Open of the other path between, Close(p),
\* Open(p): stores 1, 1 and 3
CachedOpenWitness ==
    /\ Len(trace) = 5
    /\ trace[1].op = "Open" /\ trace[1].id = 1
    /\ trace[2].op = "Open" /\ trace[2].path # trace[1].path
    /\ trace[3].op = "Open" /\ trace[3].path = trace[1].path /\ trace[3].id = 1
    /\ trace[4].op = "Close" /\ trace[4].path = trace[1].path
    /\ trace[5].op = "Open" /\ trace[5].path = trace[1].path /\ trace[5].id = 3

-----------------------------------------------------------------------------
(* Runs of Put, Puts, Delete and Deletes on a new store, with a log: trace *)
(* holds, for each call in turn, its name, its keys and what it returned. *)

MaxCountOps == 4

\* the values of the runs
CountValue == {<<>>, <<1>>}

\* the call op(keys) returned: r is the store after it and the error
CountDone(op, keys, r) ==
    /\ Len(trace) < MaxCountOps
    /\ trace' = Append(trace, [op |-> op, keys |-> keys, err |-> r.err])
    /\ file' = r.file
    /\ indexes' = r.indexes
    /\ deleted' = r.deleted
    /\ UNCHANGED <<counter, sync, opened, now, faults, nops, hist, returned>>
    /\ UNCHANGED <<concVars, regVars, keysVars, uidVars, wideVars>>
    /\ UNCHANGED <<call, ret, before>>

\* db.Put(key, value); fault: its write fails
LogPut(key, value, fault) ==
    /\ opened
    /\ CountDone("Put", <<key>>, Synced(put(Started, key, value, now, fault), "none"))

\* db.Puts(values)
LogPuts(keys, value) ==
    /\ opened
    /\ CountDone("Puts", keys,
                 Synced(putsFrom(Started, keys, value, 1, now, 0, "none"), "none"))

\* db.Delete(key)
LogDelete(key) ==
    /\ opened
    /\ CountDone("Delete", <<key>>, Synced(delete(Started, key, now, FALSE), "none"))

\* db.Deletes(keys...)
LogDeletes(keys) ==
    /\ opened
    /\ CountDone("Deletes", keys, Synced(deletesFrom(Started, keys, 1, now, 0), "none"))

\* a new store, open
InitCount ==
    /\ KeysInitStore(open(<<>>))
    /\ counter = 0
    /\ sync = TRUE
    /\ opened = TRUE
    /\ now = 1
    /\ faults = 0
    /\ nops = 0
    /\ hist = <<>>
    /\ returned = <<>>
    /\ ConcIdle
    /\ RegIdle
    /\ KeysIdle
    /\ UIDIdle
    /\ WideIdle
    /\ CallIdle

NextCount ==
    \/ \E key \in Key, value \in CountValue, fault \in {"none", "write"} :
            LogPut(key, value, fault)
    \/ \E keys \in KeyOrders, value \in CountValue : LogPuts(keys, value)
    \/ \E key \in Key : LogDelete(key)
    \/ \E keys \in KeyLists : LogDeletes(keys)

SpecCount == InitCount /\ [][NextCount]_vars

\* the calls of the log that name key
Naming(key) ==
    {i \in 1..Len(trace) : \E j \in 1..Len(trace[i].keys) : trace[i].keys[j] = key}

\* the last call that names key is a put
LastIsPut(key) ==
    /\ Naming(key) # {}
    /\ trace[CHOOSE i \in Naming(key) : \A j \in Naming(key) : j <= i].op
            \in {"Put", "Puts"}

\* C25: after a run of Put, Puts, Delete and Deletes calls that all
\* returned nil, Count() is the number of keys whose last call was a put
CountLive ==
    (\A i \in 1..Len(trace) : trace[i].err = "nil")
        => Count = Cardinality({key \in Key : LastIsPut(key)})

\* Puts of two keys, Delete of one, Put of it again, Deletes of the other
\* twice over: one key is left
CountLiveWitness ==
    /\ Len(trace) = 4
    /\ \A i \in 1..4 : trace[i].err = "nil"
    /\ trace[1].op = "Puts" /\ Len(trace[1].keys) = 2
    /\ trace[2].op = "Delete"
    /\ trace[3].op = "Put" /\ trace[3].keys = trace[2].keys
    /\ trace[4].op = "Deletes" /\ Len(trace[4].keys) = 2
    /\ trace[4].keys[1] = trace[4].keys[2] /\ trace[4].keys[1] # trace[3].keys[1]
    /\ Count = 1

-----------------------------------------------------------------------------
(* NewUID: calls of it one after the other while time passes.  The clock  *)
(* never goes back here.                                                  *)

MaxUIDs == 3

MaxSince == 196608

\* uint16(n)
Uint16(n) == n % 65536

\* n &^ 0xffff
ClearLow16(n) == (n \div 65536) * 65536

\* the values of globalCounter after init, of which NewUID uses the low 16
\* bits only: rand.Uint32() can give any
UIDSeeds == {0, 4660, 65533, 65534}

\* the nanoseconds that pass between two calls: half a unit of the time
\* part of a UID, or a whole one
Elapsed == {32768, 65536}

InitUID ==
    /\ WideIdle
    /\ KeysInitStore(open(<<>>))
    /\ counter = 0
    /\ sync = TRUE
    /\ opened = FALSE
    /\ now = 1
    /\ faults = 0
    /\ nops = 0
    /\ hist = <<>>
    /\ returned = <<>>
    /\ ConcIdle
    /\ RegIdle
    /\ KeysIdle
    /\ CallIdle
    /\ globalCounter \in UIDSeeds
    /\ since = 0
    /\ uids = <<>>

\* NewUID()
NewUID ==
    /\ Len(uids) < MaxUIDs
    /\ globalCounter' = Uint16(globalCounter + 1)
    /\ uids' = Append(uids, ClearLow16(since) + Uint16(globalCounter + 1))
    /\ UNCHANGED since
    /\ UNCHANGED <<engineVars, concVars, regVars, keysVars, callVars, wideVars>>

\* d nanoseconds pass
Elapse(d) ==
    /\ since + d <= MaxSince
    /\ since' = since + d
    /\ UNCHANGED <<globalCounter, uids>>
    /\ UNCHANGED <<engineVars, concVars, regVars, keysVars, callVars, wideVars>>

NextUID ==
    \/ NewUID
    \/ \E d \in Elapsed : Elapse(d)

SpecUID == InitUID /\ [][NextUID]_vars

\* C26: the values NewUID returns grow: of two calls, the second after the
\* first has returned, the second returns the greater value; so no two
\* values are the same
UIDMonotonic ==
    \A i \in 1..Len(uids) : \A j \in 1..Len(uids) : i < j => uids[i] < uids[j]

\* two calls within the same 65536 nanoseconds, globalCounter at 0xfffe
\* before the first, return 0x1ffff and then 0x10000
UIDMonotonicFailingInput ==
    ~ (since = 65536 /\ globalCounter = 0 /\ uids = <<131071, 65536>>)

-----------------------------------------------------------------------------
(* Open of a file of any records, whole or cut short in its last record,  *)
(* and then Put, Delete, Close and Open on it.                            *)

\* the records of the file opened, at most
MaxRecs == 2
\* the bytes cut from the end of the file opened, at most
MaxCut == 3
\* the calls of Put, Delete and Close after the file was opened, at most
MaxScanOps == 2

ScanValue == {<<>>, <<1>>}

\* a record a store may have written: its time, deleted mark, key and data
ScanRecord == [Time : {1, 2}, Deleted : BOOLEAN, key : Key, value : ScanValue]

\* the bytes of the record rec, no empty bytes behind its data
RecordBytes(rec) ==
    EncodeStoredIndex([Time      |-> rec.Time,
                       Deleted   |-> rec.Deleted,
                       KeySize   |-> Len(rec.key),
                       DataSize  |-> Len(rec.value),
                       EmptySize |-> 0])
        \o rec.key \o rec.value

\* the bytes of the records recs from record i on
RECURSIVE RecordsBytes(_, _)
RecordsBytes(recs, i) ==
    IF i > Len(recs) THEN <<>>
    ELSE RecordBytes(recs[i]) \o RecordsBytes(recs, i + 1)

\* the file of the records recs behind the header, cut bytes short
InitScanFile(recs, f, cut) ==
    /\ file = SubSeq(f, 1, Len(f) - cut)
    /\ before = [file |-> SubSeq(f, 1, Len(f) - cut), recs |-> recs, cut |-> cut]

InitScan ==
    /\ \E n \in 0..MaxRecs :
        \E recs \in [1..n -> ScanRecord], cut \in 0..MaxCut :
            /\ cut > 0 => n > 0
            /\ InitScanFile(recs, EncodeHeader(signature, 0) \o RecordsBytes(recs, 1), cut)
    /\ indexes = <<>>
    /\ deleted = <<>>
    /\ counter = 0
    /\ sync = TRUE
    /\ opened = FALSE
    /\ now = 1
    /\ faults = 0
    /\ nops = 0
    /\ hist = <<>>
    /\ returned = <<>>
    /\ ConcIdle
    /\ RegIdle
    /\ KeysIdle
    /\ UIDIdle
    /\ WideIdle
    /\ call = [op |-> "none"]
    /\ ret = [err |-> "nil"]
    /\ trace = <<>>

\* db.Put(key, value) on the store of the file
ScanPut(key, value) == nops < MaxScanOps /\ PutStep(key, value, "none")

\* db.Delete(key) on the store of the file
ScanDelete(key) == nops < MaxScanOps /\ DeleteStep(key, "none")

\* db.Close on the store of the file
ScanClose == nops < MaxScanOps /\ CloseStep

NextScan ==
    \/ \E key \in Key, value \in Value : ScanPut(key, value)
    \/ \E key \in Key : ScanDelete(key)
    \/ ScanClose
    \/ OpenDB

SpecScan == InitScan /\ [][NextScan]_vars

-----------------------------------------------------------------------------
(* Properties of open of a file of any records. *)

\* the byte offset in the file of record i of the records written
RECURSIVE RecOffset(_, _)
RecOffset(recs, i) ==
    IF i = 1 THEN headerSize
    ELSE RecOffset(recs, i - 1) + Len(RecordBytes(recs[i - 1]))

\* the store is the one the first Open of the whole file returned
FirstOpen ==
    /\ before.cut = 0
    /\ Len(hist) = 1 /\ H(0).op = "Open" /\ H(0).err = "nil"
    /\ opened

\* the file held two records, not deleted, of the same key
TwoLive ==
    /\ Len(before.recs) = 2
    /\ ~before.recs[1].Deleted /\ ~before.recs[2].Deleted
    /\ before.recs[1].key = before.recs[2].key

\* the index entry or free slot of record i of the records written
EntryOf(recs, i) ==
    [Offset    |-> RecOffset(recs, i),
     KeySize   |-> Len(recs[i].key),
     DataSize  |-> Len(recs[i].value),
     EmptySize |-> 0]

\* record w is in the index under its key and record l is the one free slot
Kept(recs, w, l) ==
    /\ DOMAIN indexes = {recs[w].key}
    /\ indexes[recs[w].key] = EntryOf(recs, w)
    /\ deleted = <<EntryOf(recs, l)>>

\* C34: when open meets two records of the same key, neither deleted, the
\* index keeps the one of the strictly greater time and the other is a free
\* slot; with equal times the record met first stays in the index
DuplicateKeys ==
    (FirstOpen /\ TwoLive)
        => IF before.recs[2].Time > before.recs[1].Time
           THEN Kept(before.recs, 2, 1)
           ELSE Kept(before.recs, 1, 2)

\* two records of one key with the same time and not the same data: the
\* first is in the index
DuplicateKeysWitness ==
    /\ FirstOpen /\ TwoLive
    /\ before.recs[1].Time = before.recs[2].Time
    /\ before.recs[1].value # before.recs[2].value
    /\ indexes[before.recs[1].key].Offset = headerSize
    /\ Len(deleted) = 1

\* C32: between operations on an open store, after Open of any file of
\* whole records too, each free slot is at an offset where the file holds
\* a record with a deleted mark that is not 0
FreeSlotsDeleted ==
    (opened /\ before.cut = 0)
        => \A i \in 1..Len(deleted) :
              /\ deleted[i].Offset + storedIndexSize <= Len(file)
              /\ file[deleted[i].Offset + 5] # 0

\* Open of a file of two records of the key "a", neither deleted, gives a
\* free slot at the second record, whose mark in the file is 0
FreeSlotsDeletedFailingInput ==
    ~ (/\ FirstOpen /\ TwoLive
       /\ before.recs[1].key = <<97>>
       /\ before.recs[1].Time = before.recs[2].Time
       /\ Len(deleted) = 1
       /\ file[deleted[1].Offset + 5] = 0)

\* after Open of such a file, Delete of the key, Close and Open, the key
\* is in the store again with the data of the second record
FreeSlotsDeletedResurrection ==
    ~ (/\ before.cut = 0 /\ TwoLive
       /\ before.recs[1].value = <<>> /\ before.recs[2].value = <<1>>
       /\ before.recs[1].Time = before.recs[2].Time
       /\ Len(hist) = 3 /\ nops = 2
       /\ H(2).op = "Delete" /\ H(2).err = "nil" /\ H(2).key = before.recs[1].key
       /\ H(1).op = "Close"
       /\ H(0).op = "Open" /\ H(0).err = "nil"
       /\ Get(before.recs[1].key) = [data |-> <<1>>, err |-> "nil"])

\* the file opened first ended inside its last record
Torn == before.cut > 0

\* the run is Open, Put, Close, Open
PutReopened ==
    /\ Len(hist) = 3 /\ nops = 2
    /\ H(2).op = "Put" /\ H(2).err = "nil"
    /\ H(1).op = "Close"
    /\ H(0).op = "Open"

\* the store d has not the key and no free slot of need bytes
NewNoFit(d, key, need) ==
    /\ d.err = "nil"
    /\ key \notin DOMAIN d.indexes
    /\ \A i \in 1..Len(d.deleted) :
          d.deleted[i].KeySize + d.deleted[i].DataSize + d.deleted[i].EmptySize < need

\* C33: after Open of a file that ends inside its last record, a Put that
\* returns nil, of a key not in the store and with no free slot large
\* enough, is read back by Get after Close and Open
TornPutRecovered ==
    (Torn /\ PutReopened
        /\ NewNoFit(open(before.file), H(2).key, Len(H(2).key) + Len(H(2).val)))
        => /\ H(0).err = "nil" /\ opened
           /\ Get(H(2).key) = [data |-> H(2).val, err |-> "nil"]

\* the file of the record of "a" with the data byte 1, cut before that
\* byte: Put("bc", "") returns nil and after Close and Open the key "bc" is
\* not found
TornPutRecoveredFailingInput ==
    ~ (/\ Torn /\ PutReopened
       /\ before.cut = 1 /\ Len(before.recs) = 1
       /\ before.recs[1].key = <<97>> /\ before.recs[1].value = <<1>>
       /\ ~before.recs[1].Deleted
       /\ H(2).key = <<98, 99>> /\ H(2).val = <<>>
       /\ H(0).err = "nil" /\ opened
       /\ Get(<<98, 99>>).err = "ErrNotFound")

\* the file of the record of "bc", cut after the key byte "b": Put("a", "")
\* returns nil and after Close and Open the key "a" is not found
TornPutRecoveredTornKey ==
    ~ (/\ Torn /\ PutReopened
       /\ before.cut = 1 /\ Len(before.recs) = 1
       /\ before.recs[1].key = <<98, 99>> /\ before.recs[1].value = <<>>
       /\ ~before.recs[1].Deleted
       /\ H(2).key = <<97>> /\ H(2).val = <<>>
       /\ H(0).err = "nil" /\ opened
       /\ Get(<<97>>).err = "ErrNotFound")

-----------------------------------------------------------------------------
(* The function Put of the package: the value goes through Bytes, whose   *)
(* default branch writes it into a buffer of bufPool, returns the bytes   *)
(* of that buffer and gives the buffer back to the pool; db.delete and    *)
(* db.put then take their scratch buffers from the same pool.  What       *)
(* bufPool.Get returns is a choice: the buffer Bytes used or another one. *)

\* the values put: the []byte of the one byte n, and numbers n of 2 and 4
\* bytes that Bytes converts in its default branch
BytesValue ==
    {[kind |-> "[]byte", n |-> 1, size |-> 1],
     [kind |-> "uint16", n |-> 258, size |-> 2],
     [kind |-> "uint32", n |-> 7, size |-> 4]}

\* Bytes(v): the bytes returned, and whether they are the bytes of a buffer
\* that went back to bufPool
Bytes(v) ==
    IF v.kind = "[]byte"
    THEN [data |-> <<v.n>>, pooled |-> FALSE]
    ELSE [data |-> BE(v.n, v.size), pooled |-> TRUE]

\* the array of a buffer that held arr after Reset and a write of w
BufferWrite(arr, w) ==
    [i \in 1..(IF Len(w) > Len(arr) THEN Len(w) ELSE Len(arr)) |->
        IF i <= Len(w) THEN w[i] ELSE arr[i]]

\* what db.delete writes into its buffer
DeleteScratch(t) == BE(Uint32(t), 4) \o <<1>>

\* what db.put has written into its buffer when it comes to write the
\* value of n bytes: the stored index and the key (the empty size is
\* behind the first 10 bytes and no value here is that long)
PutScratch(key, n, t) ==
    EncodeStoredIndex([Time      |-> Uint32(t),
                       Deleted   |-> FALSE,
                       KeySize   |-> Uint8(Len(key)),
                       DataSize  |-> Uint32(n),
                       EmptySize |-> 0])
        \o key

\* the bytes of the slice Bytes returned when db.put copies them into its
\* buffer: those of the array arr after db.delete (dsame) and db.put
\* (psame) wrote into the same array
SeenValue(arr, key, n, t, dsame, psame) ==
    SubSeq(IF psame
           THEN BufferWrite(IF dsame THEN BufferWrite(arr, DeleteScratch(t)) ELSE arr,
                          PutScratch(key, n, t))
           ELSE IF dsame THEN BufferWrite(arr, DeleteScratch(t)) ELSE arr,
           1, n)

\* Put(filename, key, value) of the package on the open store, b the
\* result of Bytes(value)
BytesPutDone(key, v, b, dsame, psame) ==
    CallDone("keystore.Put", <<key>>, [kind |-> v.kind, bytes |-> b.data], 0, "none",
             Synced(put(Started, key,
                        SeenValue(b.data, key, Len(b.data), now, dsame, psame),
                        now, "none"), "none"),
             <<>>, TRUE, counter)

BytesPut(key, v, dsame, psame) ==
    /\ call.op = "none"
    /\ (dsame \/ psame) => Bytes(v).pooled
    /\ dsame => key \in DOMAIN indexes
    /\ BytesPutDone(key, v, Bytes(v), dsame, psame)

NextBytes ==
    \E key \in Key, v \in BytesValue, dsame \in BOOLEAN, psame \in BOOLEAN :
        BytesPut(key, v, dsame, psame)

SpecBytes == InitCall /\ [][NextBytes]_vars

-----------------------------------------------------------------------------
(* Properties of Put with a converted value. *)

\* C37: after Put(file, k, value) of the package returned nil with a value
\* that Bytes converts in its default branch, Get(k) returns the big-endian
\* bytes of the value
ConvertedIntact ==
    (call.op = "keystore.Put" /\ ret.err = "nil" /\ call.value.kind # "[]byte")
        => Get(call.keys[1]) = [data |-> call.value.bytes, err |-> "nil"]

\* Put of the uint32 7: Get returns the 4 bytes of the time of the record
ConvertedIntactFailingInput ==
    ~ (/\ call.op = "keystore.Put" /\ ret.err = "nil"
       /\ call.value = [kind |-> "uint32", bytes |-> <<0, 0, 0, 7>>]
       /\ Get(call.keys[1]) = [data |-> <<0, 0, 0, 1>>, err |-> "nil"])

-----------------------------------------------------------------------------
(* Put, Delete, Close and Open on a new store with keys of more than 255  *)
(* bytes, and a key of one byte.                                          *)

\* the length of the longest key
MaxLongKeyLen == 257
\* the calls of Put, Delete and Close of a run, at most
MaxLongOps == 3

\* the key of n bytes 1 (read as numbers of a record header by the scan of
\* open, bytes of this value stay within the integers of the model)
LongKey(n) == [i \in 1..n |-> 1]

LongKeys == {LongKey(n) : n \in 256..MaxLongKeyLen} \cup {<<97>>}

\* db.Put(key, value)
LongPut(key, value) == nops < MaxLongOps /\ PutStep(key, value, "none")

\* db.Delete(key)
LongDelete(key) == nops < MaxLongOps /\ DeleteStep(key, "none")

\* db.Close
LongClose == nops < MaxLongOps /\ CloseStep

NextLong ==
    \/ \E key \in LongKeys, value \in Value : LongPut(key, value)
    \/ \E key \in LongKeys : LongDelete(key)
    \/ LongClose
    \/ OpenDB

SpecLong == Init /\ [][NextLong]_vars

-----------------------------------------------------------------------------
(* Properties of long keys. *)

\* the last call was a Put of a key of more than 255 bytes that returned nil
LongKeyPut ==
    /\ opened /\ hist # <<>>
    /\ H(0).op = "Put" /\ H(0).err = "nil"
    /\ Len(H(0).key) > 255

\* C38: after Put(k, v) with len(k) > 255 returned nil, Get(k) returns v,
\* the key size written to the file is len(k), and the bytes the record
\* takes by its header are the bytes written
LongKeyStored ==
    LongKeyPut
        => /\ Get(H(0).key) = [data |-> H(0).val, err |-> "nil"]
           /\ file[H(0).off + 6] = Len(H(0).key)
           /\ Footprint(file, H(0).off) >= 14 + Len(H(0).key) + Len(H(0).val)

\* Put of the key of 256 bytes with the value of the bytes 2, 3 on a new
\* store: the key size in the file is 0 and Get returns the first two
\* bytes of the key
LongKeyStoredFailingInput ==
    ~ (/\ LongKeyPut /\ Len(hist) = 1
       /\ H(0).key = LongKey(256) /\ H(0).val = <<2, 3>>
       /\ file[H(0).off + 6] = 0
       /\ Footprint(file, H(0).off) = 14 + 2
       /\ Get(H(0).key) = [data |-> <<1, 1>>, err |-> "nil"])

\* after that Put, Close and Open, the key of 256 bytes is not in the
\* store and the key of no bytes is
LongKeyStoredReopen ==
    ~ (/\ Len(hist) = 3 /\ opened
       /\ H(2).op = "Put" /\ H(2).err = "nil" /\ H(2).key = LongKey(256) /\ H(2).off = headerSize
       /\ H(1).op = "Close"
       /\ H(0).op = "Open" /\ H(0).err = "nil"
       /\ ~Has(LongKey(256))
       /\ Has(<<>>))

-----------------------------------------------------------------------------
(* A store whose file grows past 2^32 bytes.  A file offset (int64 in the *)
(* code) is the record [hi, lo] that stands for hi * 2^30 + lo; the file  *)
(* is the set of the records written with the offsets they were written   *)
(* at, their data not kept.  Each Put is of a key not in the store, so    *)
(* the free-slot list is empty and db.put writes at the end of the file.  *)

\* the Puts of a run, at most
MaxWidePuts == 5

\* 2^30
Gi == 1073741824

\* the keys put: one byte each
WideKey == {<<96 + i>> : i \in 1..MaxWidePuts}

\* the lengths of the values put: 1 byte, and 2^30 - 16 bytes
WideLen == {1, Gi - 16}

\* offset + n, for n of at most 2^30
WideAdd(offset, n) ==
    IF offset.lo + n >= Gi
    THEN [hi |-> offset.hi + 1, lo |-> offset.lo + n - Gi]
    ELSE [hi |-> offset.hi, lo |-> offset.lo + n]

\* uint32(offset): the offset modulo 2^32
WideUint32(offset) == [hi |-> offset.hi % 4, lo |-> offset.lo]

\* the index entry put and open build for a record of key and n bytes of
\* data at offset
WideIndex(offset, key, n) ==
    [Offset    |-> WideUint32(offset),
     KeySize   |-> Uint8(Len(key)),
     DataSize  |-> Uint32(n),
     EmptySize |-> 0]

\* the store open returns on a new file: the 12 bytes of the header
InitWideStore ==
    wide = [end |-> [hi |-> 0, lo |-> headerSize], recs |-> {}, indexes |-> <<>>]

InitWide ==
    /\ InitWideStore
    /\ KeysInitStore(open(<<>>))
    /\ counter = 0
    /\ sync = TRUE
    /\ opened = TRUE
    /\ now = 1
    /\ faults = 0
    /\ nops = 0
    /\ hist = <<>>
    /\ returned = <<>>
    /\ ConcIdle
    /\ RegIdle
    /\ KeysIdle
    /\ UIDIdle
    /\ CallIdle

\* db.Put(key, value) with a value of n bytes and a key not in the store:
\* the record is written at the end Seek returns, and the index entry takes
\* uint32 of that offset
WidePut(key, n) ==
    /\ Cardinality(wide.recs) < MaxWidePuts
    /\ key \notin DOMAIN wide.indexes
    /\ wide' = [end     |-> WideAdd(wide.end, storedIndexSize + Len(key) + n),
                recs    |-> wide.recs \cup {[at |-> wide.end, key |-> key, DataSize |-> n]},
                indexes |-> [k \in DOMAIN wide.indexes \cup {key} |->
                                IF k = key THEN WideIndex(wide.end, key, n)
                                ELSE wide.indexes[k]]]
    /\ UNCHANGED <<engineVars, concVars, regVars, keysVars, callVars, uidVars>>

\* the scan of open from offset on: the index entries of the records met
RECURSIVE WideScan(_, _, _)
WideScan(recs, offset, idxs) ==
    IF \A rec \in recs : rec.at # offset
    THEN idxs
    ELSE LET rec == CHOOSE r \in recs : r.at = offset
         IN WideScan(recs,
                     WideAdd(offset, storedIndexSize + Len(rec.key) + rec.DataSize),
                     [k \in DOMAIN idxs \cup {rec.key} |->
                         IF k = rec.key THEN WideIndex(offset, rec.key, rec.DataSize)
                         ELSE idxs[k]])

\* db.Close and Open of the file: the index is built again by the scan
WideReopen ==
    /\ wide.recs # {}
    /\ wide' = [wide EXCEPT !.indexes = WideScan(wide.recs, [hi |-> 0, lo |-> headerSize], <<>>)]
    /\ UNCHANGED <<engineVars, concVars, regVars, keysVars, callVars, uidVars>>

NextWide ==
    \/ \E key \in WideKey, n \in WideLen : WidePut(key, n)
    \/ WideReopen

SpecWide == InitWide /\ [][NextWide]_vars

-----------------------------------------------------------------------------
(* Properties of the offsets of a large file. *)

\* C39: the offset of each index entry, a 32-bit field, is the file offset
\* at which the record of its key was written, also when the file is 2^32
\* bytes long or longer, after Put and after the scan of open
OffsetsFit ==
    \A key \in DOMAIN wide.indexes :
        \E rec \in wide.recs :
            rec.key = key /\ wide.indexes[key].Offset = rec.at

\* four Puts of values of 2^30 - 16 bytes, then a Put of one byte: the
\* record is written at offset 2^32 + 8 and the index entry has offset 8
OffsetsFitFailingInput ==
    ~ (/\ Cardinality(wide.recs) = 5
       /\ \E rec \in wide.recs :
            /\ rec.at = [hi |-> 4, lo |-> 8]
            /\ rec.DataSize = 1
            /\ wide.indexes[rec.key].Offset = [hi |-> 0, lo |-> 8])

====
